---- MODULE Spec2Model ----
(***************************************************************************)
(* Model of src/main.py: the liked-songs cache store (get_cache_filename,  *)
(* get_latest_cache_file, load_liked_songs_from_cache,                     *)
(* save_liked_songs_to_cache), the orchestration load_liked_songs_data     *)
(* with its pagination loop, export_songs_to_csv, analyze_music_taste with *)
(* its two batch loops, get_music_taste_insights, and                      *)
(* authenticate_with_spotify with the click handlers of main, and the      *)
(* liked-songs window of show_liked_songs with its load and export         *)
(* handlers.  Each part has a specification of its own: Spec,              *)
(* SpecAnalysis, SpecExport, SpecInsights, SpecMain, SpecWindow (with      *)
(* SpecWindowFair for the progress of a load).                             *)
(*                                                                         *)
(* Text is a sequence of tokens.  A token is a run of characters; the     *)
(* characters the code treats specially (",", " ", ":", "-", a digit) are  *)
(* always tokens of their own, so split, strip, join, int() and            *)
(* isdigit() act on tokens as the code's calls act on characters.          *)
(* A CSV file is the sequence of rows csv.writer wrote, each row the       *)
(* sequence of its field texts; csv.DictReader takes the first row as the  *)
(* field names.                                                            *)
(***************************************************************************)
EXTENDS Integers, Sequences, FiniteSets, TLC

\* ------------------------------------------------------------------ bounds
\* Largest number of full pages of the user's library.
MaxPages == 2
\* Largest number of calls of load_liked_songs_data in one behaviour.
MaxCalls == 2
\* Largest number of snapshot files on disk before the first call.
MaxInitFiles == 2
\* Latest wall-clock second.
MaxClock == 1
\* Largest number of entries of a list given to export_songs_to_csv.
MaxExportSongs == 8
\* Most clicks on the buttons of the main window.
MaxClicks == 3

\* ------------------------------------------------------------- Python text
Digit == {"0", "1", "2", "3", "4", "5", "6", "7", "8", "9"}

DigitTok(d) == <<"0", "1", "2", "3", "4", "5", "6", "7", "8", "9">>[d + 1]

DigitVal(t) == CHOOSE d \in 0..9 : DigitTok(d) = t

\* str(n) for an int n >= 0
RECURSIVE Str(_)
Str(n) == IF n < 10 THEN <<DigitTok(n)>> ELSE Str(n \div 10) \o <<DigitTok(n % 10)>>

\* f"{n:02d}" for n >= 0
Pad2(n) == IF n < 10 THEN <<"0">> \o Str(n) ELSE Str(n)

\* str.isdigit()
IsDigitText(s) == Len(s) > 0 /\ \A i \in 1..Len(s) : s[i] \in Digit

\* int(s) for a text int() accepts (here: a non-empty run of digits)
RECURSIVE IntOf(_)
IntOf(s) ==
    IF Len(s) = 0 THEN 0
    ELSE 10 * IntOf(SubSeq(s, 1, Len(s) - 1)) + DigitVal(s[Len(s)])

\* s[a:b] with Python's clipping, a and b counted from 0
Slice(s, a, b) ==
    LET hi == IF b < Len(s) THEN b ELSE Len(s)
    IN  IF a >= hi THEN <<>> ELSE SubSeq(s, a + 1, hi)

\* sep.join(parts)
RECURSIVE Join(_, _)
Join(sep, parts) ==
    IF Len(parts) = 0 THEN <<>>
    ELSE IF Len(parts) = 1 THEN parts[1]
    ELSE parts[1] \o sep \o Join(sep, Tail(parts))

\* s.split(c) for a one-character separator c
RECURSIVE SplitAcc(_, _, _)
SplitAcc(s, c, cur) ==
    IF Len(s) = 0 THEN <<cur>>
    ELSE IF Head(s) = c THEN <<cur>> \o SplitAcc(Tail(s), c, <<>>)
    ELSE SplitAcc(Tail(s), c, Append(cur, Head(s)))

Split(s, c) == SplitAcc(s, c, <<>>)

\* s.strip(): leading and trailing whitespace removed
RECURSIVE LStrip(_)
LStrip(s) == IF Len(s) > 0 /\ Head(s) = " " THEN LStrip(Tail(s)) ELSE s

RECURSIVE RStrip(_)
RStrip(s) ==
    IF Len(s) > 0 /\ s[Len(s)] = " " THEN RStrip(SubSeq(s, 1, Len(s) - 1)) ELSE s

Strip(s) == LStrip(RStrip(s))

\* s.replace(old, new) for one-character old and new
Replace(s, old, new) == [i \in 1..Len(s) |-> IF s[i] = old THEN new ELSE s[i]]

\* c in s
Contains(s, c) == \E i \in 1..Len(s) : s[i] = c

StartsWith(s, p) == Len(s) >= Len(p) /\ SubSeq(s, 1, Len(p)) = p

EndsWith(s, p) == Len(s) >= Len(p) /\ SubSeq(s, Len(s) - Len(p) + 1, Len(s)) = p

\* Python's None where a text is expected (csv.DictReader's restval, a null
\* JSON field): a one-token text no file content can hold.
None == <<"<None>">>

\* ------------------------------------------------------ the API's data model
\* limit = 50 in load_liked_songs_data: the page size of every request.
limit == 50

\* The profile current_user() returns for the logged-in user, and the
\* profile of another user of the same machine, whose user key extends the
\* first user's snapshot prefix.  Display names are free text.
Bob == [display_name |-> <<"bob", " ", "b">>, id |-> <<"1">>]

Other ==
    [ display_name |-> <<"bob", " ", "b", " ", "1", " ", "liked", " ", "songs", " ", "x">>,
      id |-> <<"2">> ]

\* A user whose display name holds a bracketed word.
Dj == [display_name |-> <<"dj", " ", "[", "x", "]">>, id |-> <<"3">>]

Users == {Bob, Dj}

\* username = user_info['display_name'].replace(' ', '-') + '-' + user_info['id']
UserKey(user_info) == Replace(user_info.display_name, " ", "-") \o <<"-">> \o user_info.id

BobKey == UserKey(Bob)

OtherKey == UserKey(Other)

PyInt(n) == [t |-> "int", v |-> n]

PyNone == [t |-> "None"]

ArtistNames ==
    << <<"Adele">>,
       <<"Beck">>,
       <<"Tyler", ",", " ", "The Creator">>,
       <<" ", "Zed">> >>

\* The i-th saved track as the API returns it.  The shapes cycle with i: one
\* artist, two artists and a null popularity, an artist name holding a comma
\* and no popularity key, an artist name with leading whitespace.
ApiTrack(i) ==
    LET k == i % 4
        id == <<"t">> \o Str(i)
        name == <<"Song", " ">> \o Str(i)
        artists ==
            CASE k = 1 -> << [name |-> ArtistNames[1], id |-> <<"a1">>] >>
              [] k = 2 -> << [name |-> ArtistNames[1], id |-> <<"a1">>],
                             [name |-> ArtistNames[2], id |-> <<"a2">>] >>
              [] k = 3 -> << [name |-> ArtistNames[3], id |-> <<"a3">>] >>
              [] OTHER -> << [name |-> ArtistNames[4], id |-> <<"a4">>],
                             [name |-> ArtistNames[2], id |-> <<"a2">>] >>
        album == [name |-> <<"Album", " ">> \o Str(i % 3),
                  release_date |-> <<"2", "0", "1">> \o Str(i % 3)]
        duration_ms ==
            CASE k = 1 -> 245000
              [] k = 2 -> 59999
              [] k = 3 -> 6000123
              [] OTHER -> 0
        external_urls == [spotify |-> <<"https://open.spotify.com/track/">> \o Str(i)]
        with(popularity) ==
            [ id |-> id, name |-> name, artists |-> artists, album |-> album,
              duration_ms |-> duration_ms, external_urls |-> external_urls,
              popularity |-> popularity ]
    IN  CASE k = 1 -> with(PyInt(57))
          [] k = 2 -> with(PyNone)
          [] k = 3 -> [ id |-> id, name |-> name, artists |-> artists, album |-> album,
                        duration_ms |-> duration_ms, external_urls |-> external_urls ]
          [] OTHER -> with(PyInt(100))

LikedDates == <<"2024-01-05", "2023-12-31", "2024-02-29">>

\* One item of current_user_saved_tracks: the track and its added_at, whose
\* first token stands for the ten characters YYYY-MM-DD.
ApiItem(i) ==
    [ track |-> ApiTrack(i),
      added_at |-> <<LikedDates[(i % 3) + 1], "T10:11:12Z">> ]

\* The library sizes: up to MaxPages full pages and a last page of 0 or 23.
LibrarySizes == { p * limit + r : p \in 0..MaxPages, r \in {0, 23} }

Library(n) == [i \in 1..n |-> ApiItem(i)]

\* results['items'] of current_user_saved_tracks(limit=lim, offset=off)
SavedTracksPage(lib, lim, off) ==
    IF off >= Len(lib) THEN <<>>
    ELSE SubSeq(lib, off + 1, IF off + lim < Len(lib) THEN off + lim ELSE Len(lib))

\* ------------------------------------------------------- snapshot writing
\* The header row both writers write.
Header ==
    << <<"Song Number">>, <<"Artist">>, <<"Title">>, <<"Duration">>, <<"Popularity">>,
       <<"Spotify URL">>, <<"Liked Date">>, <<"Album">>, <<"Track ID">> >>

\* csv.writer's text of a popularity value: str() of an int, '' for None
PopularityText(p) == IF p.t = "None" THEN <<>> ELSE Str(p.v)

\* duration_formatted = f"{duration_minutes:02d}:{duration_seconds:02d}"
DurationFormatted(duration_ms) ==
    Pad2(duration_ms \div 60000) \o <<":">> \o Pad2((duration_ms % 60000) \div 1000)

\* added_at[:10]: the first ten characters, which are the first token of an
\* ISO-8601 text as the API and the cache reader build it.
DatePrefix(added_at) == Slice(added_at, 0, 1)

\* The row written for the i-th item (the loop body of both writers).
SongRow(i, item) ==
    LET track == item.track
        artist == Join(<<",", " ">>, [a \in 1..Len(track.artists) |-> track.artists[a].name])
        title == track.name
        liked_date == DatePrefix(item.added_at)
        album == track.album.name
        track_id == IF "id" \in DOMAIN track THEN track.id ELSE <<>>
        duration_ms == IF "duration_ms" \in DOMAIN track THEN track.duration_ms ELSE 0
        popularity == IF "popularity" \in DOMAIN track THEN track.popularity ELSE PyInt(0)
        spotify_url ==
            IF "external_urls" \in DOMAIN track /\ "spotify" \in DOMAIN track.external_urls
            THEN track.external_urls.spotify ELSE <<>>
    IN  << Str(i), artist, title, DurationFormatted(duration_ms), PopularityText(popularity),
           spotify_url, liked_date, album, track_id >>

\* The rows a writer produces for a whole list: the header, then one row per
\* item in list order.
SnapshotRows(liked_songs) ==
    <<Header>> \o [i \in 1..Len(liked_songs) |-> SongRow(i, liked_songs[i])]

\* ------------------------------------------------------- snapshot reading
\* Position of a field name in DictReader's fieldnames, 0 when it is absent.
FieldIndex(fieldnames, key) ==
    IF \E i \in 1..Len(fieldnames) : fieldnames[i] = <<key>>
    THEN CHOOSE i \in 1..Len(fieldnames) :
            /\ fieldnames[i] = <<key>>
            /\ \A j \in (i + 1)..Len(fieldnames) : fieldnames[j] # <<key>>
    ELSE 0

HasKey(fieldnames, key) == FieldIndex(fieldnames, key) > 0

\* row[key] for a key of the fieldnames: a short row reads None (restval)
RowField(fieldnames, row, key) ==
    LET i == FieldIndex(fieldnames, key)
    IN  IF i <= Len(row) THEN row[i] ELSE None

\* row.get(key, default)
RowGet(fieldnames, row, key, default) ==
    IF HasKey(fieldnames, key) THEN RowField(fieldnames, row, key) ELSE default

\* int(s) succeeds
IntOk(s) == IsDigitText(s)

\* The dict literal of load_liked_songs_from_cache raises for this row:
\* KeyError for a missing column, AttributeError or TypeError for a None
\* value, ValueError for a duration part that is no integer, IndexError for
\* none.
RowRaises(fieldnames, row) ==
    LET f(key) == RowField(fieldnames, row, key)
    IN  \/ ~HasKey(fieldnames, "Title")
        \/ ~HasKey(fieldnames, "Artist")
        \/ f("Artist") = None
        \/ ~HasKey(fieldnames, "Duration")
        \/ f("Duration") = None
        \/ /\ Contains(f("Duration"), ":")
           /\ \/ ~IntOk(Split(f("Duration"), ":")[1])
              \/ ~IntOk(Split(f("Duration"), ":")[2])
        \/ ~HasKey(fieldnames, "Popularity")
        \/ f("Popularity") = None
        \/ ~HasKey(fieldnames, "Spotify URL")
        \/ ~HasKey(fieldnames, "Liked Date")
        \/ f("Liked Date") = None

\* track_data built from one row that does not raise
TrackData(fieldnames, row) ==
    LET f(key) == RowField(fieldnames, row, key)
        parts == Split(f("Artist"), ",")
        d == Split(f("Duration"), ":")
    IN  [ track |->
            [ id |-> RowGet(fieldnames, row, "Track ID", <<>>),
              name |-> f("Title"),
              artists |-> [a \in 1..Len(parts) |-> [name |-> Strip(parts[a])]],
              album |-> [name |-> RowGet(fieldnames, row, "Album", <<"Unknown">>)],
              duration_ms |->
                  IF Contains(f("Duration"), ":")
                  THEN (IntOf(d[1]) * 60 + IntOf(d[2])) * 1000
                  ELSE 0,
              popularity |->
                  IF IsDigitText(f("Popularity")) THEN PyInt(IntOf(f("Popularity")))
                  ELSE PyInt(0),
              external_urls |-> [spotify |-> f("Spotify URL")] ],
          added_at |-> f("Liked Date") \o <<"T00:00:00Z">> ]

\* DataRows as it would be if the first row were read as data too.
DataRows_KeepsHeader(content) == SelectSeq(content, LAMBDA r : Len(r) > 0)

\* The rows csv.DictReader yields: those after the first, blank rows skipped.
DataRows(content) ==
    IF Len(content) = 0 THEN <<>>
    ELSE SelectSeq(Tail(content), LAMBDA r : Len(r) > 0)

\* ------------------------------------------------------------ file names
LikedSongsSep == <<"-", "liked", "-", "songs", "-">>

\* datetime.now().strftime("%Y%m%d_%H%M%S") at wall-clock second t of the
\* day the behaviour runs in.
Timestamp(t) ==
    <<"2", "0", "2", "4", "0", "3", "0", "9", "_", "1", "2", "0", "0">> \o Pad2(t)

\* The same format for second t of an earlier day.
OldTimestamp(t) ==
    <<"2", "0", "2", "3", "1", "1", "2", "0", "_", "0", "8", "3", "0">> \o Pad2(t)

\* get_cache_filename as it would be with one fixed name for each user.
get_cache_filename_NoTimestamp(username, t) == username \o LikedSongsSep \o <<"latest", ".csv">>

\* return f"{username}-liked-songs-{timestamp}.csv"
get_cache_filename(username, t) == username \o LikedSongsSep \o Timestamp(t) \o <<".csv">>

\* Position of the "]" that closes the character class opened at p[1],
\* 0 when p[1] opens none: the first "]" after at least one member.
ClassEnd(p) ==
    LET ends == { j \in 3..Len(p) : p[j] = "]" }
    IN  IF p[1] # "[" \/ ends = {} THEN 0 ELSE CHOOSE j \in ends : \A k \in ends : j <= k

\* fnmatch of a whole name s against a pattern p, as glob.glob applies it to
\* the names of the directory: "*" matches any run, "?" any one character,
\* "[...]" one character of those listed, everything else itself.  The
\* members of a class are one-character tokens (no range, no negation in
\* the names of this model).
RECURSIVE GlobMatch(_, _)
GlobMatch(p, s) ==
    IF p = <<>> THEN s = <<>>
    ELSE IF p[1] = "*"
    THEN \E k \in 0..Len(s) : GlobMatch(Tail(p), SubSeq(s, k + 1, Len(s)))
    ELSE IF s = <<>> THEN FALSE
    ELSE IF p[1] = "?" THEN GlobMatch(Tail(p), Tail(s))
    ELSE IF ClassEnd(p) > 0
    THEN /\ \E j \in 2..(ClassEnd(p) - 1) : p[j] = s[1]
         /\ GlobMatch(SubSeq(p, ClassEnd(p) + 1, Len(p)), Tail(s))
    ELSE p[1] = s[1] /\ GlobMatch(Tail(p), Tail(s))

\* glob.glob(f"{username}-liked-songs-*{ext}") over the names present: the
\* user key is part of the pattern.
Glob(names, username, ext) ==
    { n \in names : GlobMatch(username \o LikedSongsSep \o <<"*">> \o ext, n) }

\* The values get_latest_cache_file can return; the empty set stands for
\* None.  cache_files is csv_files + txt_files, each in the order glob lists
\* them, which is arbitrary; the stable sort by mtime, newest first, puts
\* first the earliest listed file of greatest mtime: a .csv one when there
\* is one.
get_latest_cache_file(fs, username) ==
    LET csv_files == Glob(DOMAIN fs, username, <<".csv">>)
        txt_files == Glob(DOMAIN fs, username, <<".txt">>)
        cache_files == csv_files \cup txt_files
        newest == { n \in cache_files : \A m \in cache_files : fs[m].mtime <= fs[n].mtime }
    IN  IF newest \cap csv_files # {} THEN newest \cap csv_files ELSE newest

\* First position at which sep occurs in s, 0 when it does not.
IndexOf(s, sep) ==
    LET hits == { i \in 1..(Len(s) - Len(sep) + 1) : SubSeq(s, i, i + Len(sep) - 1) = sep }
    IN  IF hits = {} THEN 0 ELSE CHOOSE i \in hits : \A j \in hits : i <= j

\* s.split(sep)[1] for an s that holds sep
SplitSecond(s, sep) ==
    LET rest == SubSeq(s, IndexOf(s, sep) + Len(sep), Len(s))
        nxt == IndexOf(rest, sep)
    IN  IF nxt = 0 THEN rest ELSE SubSeq(rest, 1, nxt - 1)

\* s.replace('.csv', '')
DropCsv(s) == SelectSeq(s, LAMBDA tok : tok # ".csv")

\* cached_at, from the file name
CachedAt(cache_file) ==
    LET cache_timestamp == DropCsv(SplitSecond(cache_file, LikedSongsSep))
    IN  Slice(cache_timestamp, 0, 4) \o <<"-">> \o Slice(cache_timestamp, 4, 6)
            \o <<"-">> \o Slice(cache_timestamp, 6, 8)

\* What load_liked_songs_from_cache returns when get_latest_cache_file
\* returned cache_file: None (here NoData) when a row raises, else the list
\* and cached_at.
NoData == [hit |-> FALSE]

\* ReadSnapshot as it would be if a row that raises were skipped instead of
\* failing the whole read.
ReadSnapshot_SkipsBadRows(fs, cache_file) ==
    LET content == fs[cache_file].content
        fieldnames == IF Len(content) = 0 THEN <<>> ELSE content[1]
        rows == SelectSeq(DataRows(content), LAMBDA row : ~RowRaises(fieldnames, row))
    IN  [ hit |-> TRUE,
          liked_songs |-> [r \in 1..Len(rows) |-> TrackData(fieldnames, rows[r])],
          cached_at |-> CachedAt(cache_file) ]

ReadSnapshot(fs, cache_file) ==
    LET content == fs[cache_file].content
        fieldnames == IF Len(content) = 0 THEN <<>> ELSE content[1]
        rows == DataRows(content)
    IN  IF \E r \in 1..Len(rows) : RowRaises(fieldnames, rows[r])
        THEN NoData
        ELSE [ hit |-> TRUE,
               liked_songs |-> [r \in 1..Len(rows) |-> TrackData(fieldnames, rows[r])],
               cached_at |-> CachedAt(cache_file) ]

\* ExportRows as it would be with enumerate(liked_songs) counting from 0.
ExportRows_CountsFromZero(liked_songs) ==
    <<Header>> \o [i \in 1..Len(liked_songs) |-> SongRow(i - 1, liked_songs[i])]

\* The rows export_songs_to_csv writes to its file: the same header and the
\* same loop body as the snapshot writer.
ExportRows(liked_songs) ==
    <<Header>> \o [i \in 1..Len(liked_songs) |-> SongRow(i, liked_songs[i])]

\* The values load_liked_songs_from_cache(username) can return.
load_liked_songs_from_cache(fs, username) ==
    IF get_latest_cache_file(fs, username) = {} THEN {NoData}
    ELSE { ReadSnapshot(fs, f) : f \in get_latest_cache_file(fs, username) }

\* ------------------------------------------------- files found at start-up
\* Snapshots earlier runs can have left on disk.  mtime is the filesystem
\* modification time; owner (not a field of the program) is the user key the
\* file was written for.
OldSongs == <<ApiItem(201), ApiItem(202)>>

OlderSongs == <<ApiItem(305)>>

\* The header an earlier version of the snapshot format wrote: no Title.
LegacyHeader == << <<"Number">>, <<"Artist">>, <<"Song">>, <<"Duration">> >>

FilePool ==
    { \* a snapshot whose name is older and whose mtime is newer than the next one
      [ name |-> BobKey \o LikedSongsSep \o OldTimestamp(0) \o <<".csv">>,
        mtime |-> 3, owner |-> BobKey, content |-> SnapshotRows(OldSongs) ],
      [ name |-> BobKey \o LikedSongsSep \o OldTimestamp(1) \o <<".csv">>,
        mtime |-> 2, owner |-> BobKey, content |-> SnapshotRows(OlderSongs) ],
      \* a legacy line-delimited text snapshot
      [ name |-> BobKey \o LikedSongsSep \o OldTimestamp(2) \o <<".txt">>,
        mtime |-> 5, owner |-> BobKey,
        content |-> << << <<"Liked Songs">> >>, << <<"1. Song 201 - Adele">> >>,
                       << <<"2. Song 202 - Adele">>, <<" ", "Beck">> >> >> ],
      \* a CSV of an earlier format, with rows, and one with its header alone
      [ name |-> BobKey \o LikedSongsSep \o OldTimestamp(3) \o <<".csv">>,
        mtime |-> 4, owner |-> BobKey,
        content |-> << LegacyHeader,
                       << <<"1">>, <<"Adele">>, <<"Song", " ", "1">>, <<"0", "4", ":", "0", "5">> >> >> ],
      [ name |-> BobKey \o LikedSongsSep \o OldTimestamp(4) \o <<".csv">>,
        mtime |-> 6, owner |-> BobKey, content |-> << LegacyHeader >> ],
      \* a snapshot of the other user
      [ name |-> OtherKey \o LikedSongsSep \o OldTimestamp(5) \o <<".csv">>,
        mtime |-> 7, owner |-> OtherKey, content |-> SnapshotRows(OlderSongs) ],
      \* a current-format snapshot whose second row has a non-numeric duration
      [ name |-> BobKey \o LikedSongsSep \o OldTimestamp(6) \o <<".csv">>,
        mtime |-> 4, owner |-> BobKey,
        content |-> << Header, SongRow(1, ApiItem(201)),
                       << <<"2">>, <<"Beck">>, <<"Song", " ", "9">>, <<"a", "b", ":", "c", "d">>,
                          <<"5">>, <<"u">>, <<"2024-01-05">>, <<"Album">>, <<"t", "9">> >> >> ],
      \* one whose row has a non-numeric popularity and a duration without ':'
      [ name |-> BobKey \o LikedSongsSep \o OldTimestamp(7) \o <<".csv">>,
        mtime |-> 8, owner |-> BobKey,
        content |-> << Header,
                       << <<"1">>, <<"Beck">>, <<"Song", " ", "9">>, <<"7">>,
                          <<"h", "i", "g", "h">>, <<"u">>, <<"2024-01-05">>, <<"Album">>,
                          <<"t", "9">> >> >> ] }

\* The sets of pool entries a run of the user can find at start-up: the pool
\* is what runs of the first user and of its neighbour left; the user with
\* the bracketed name starts in a directory without snapshots.
StartPools(u) ==
    IF u = Bob THEN { pool \in SUBSET FilePool : Cardinality(pool) <= MaxInitFiles }
    ELSE {{}}

\* The file system holding the files of a set of pool entries.
FileSystem(pool) ==
    [ n \in { f.name : f \in pool } |->
        LET f == CHOOSE g \in pool : g.name = n
        IN  [mtime |-> f.mtime, content |-> f.content, owner |-> f.owner] ]

\* ------------------------------------------------------------------ state
VARIABLES
    user,           \* the profile current_user() returns
    library,        \* the user's saved tracks on the server, in API order
    files,          \* the working directory: name -> [mtime, content, owner]
    now,            \* the wall clock, in seconds
    mclock,         \* the greatest modification time handed out so far
    pc,             \* position in load_liked_songs_data
    force_refresh,  \* its argument
    username,       \* its locals
    liked_songs,
    offset,
    requests,       \* the requests it has issued on spotify_client, in order
    cache_read,     \* the files it has opened for reading, in order
    cache_filename, \* what save_liked_songs_to_cache returned to it
    failures,       \* the requests of this call that raised (kept for the proofs)
    result,         \* what it returned or raised
    files_before,   \* the working directory when it was called
    ncalls,         \* calls made so far, and those the behaviour starts without
    writes          \* every write that reached the disk, in order:
                    \* [name, content, second, mtime, ok] (kept for the proofs)

vars ==
    << user, library, files, now, mclock, pc, force_refresh, username, liked_songs,
       offset, requests, cache_read, cache_filename, failures, result, files_before,
       ncalls, writes >>

\* The state of the other operations of the program: analyze_music_taste,
\* export_songs_to_csv, get_music_taste_insights and the main window.
VARIABLES
    tracks,            \* analyze_music_taste: its argument tracks
    analysis_limit,    \* its argument limit
    analysis_pc,       \* its position
    track_ids,         \* its locals
    artist_ids,
    batch_i,           \* the loop variable i of the batch loop it is in
    audio_features,
    artist_genres,     \* a dict: artist id -> list of genres
    feature_requests,  \* the batches it passed to spotify_client.audio_features
    genre_requests,    \* the batches it passed to spotify_client.artists
    failed_requests,   \* the requests among them that raised (kept for the proofs)
    analysis           \* what it returned or raised

analysisVars ==
    << tracks, analysis_limit, analysis_pc, track_ids, artist_ids, batch_i, audio_features,
       artist_genres, feature_requests, genre_requests, failed_requests, analysis >>

VARIABLES
    export_songs,      \* export_songs_to_csv: its argument liked_songs
    export_given,      \* the list as it was when the function was called
    export_file,       \* the file named by its argument filename
    export_result,     \* what it returned or raised
    export_failure     \* whether an I/O operation of the call raised

exportVars == << export_songs, export_given, export_file, export_result, export_failure >>

VARIABLES
    insights_analysis, \* get_music_taste_insights: its argument analysis
    insights           \* what it returned

insightsVars == << insights_analysis, insights >>

VARIABLES
    env,               \* the configuration read from the environment at import
    spotify_client,    \* main: the client it holds
    buttons,           \* the state of each feature button
    dialogs,           \* the message boxes shown by the last click, in order
    helper_calls,      \* the calls the last login made on the auth helper, in order
    click_outcome,     \* how authenticate_with_spotify ended in the last click
    nclicks,           \* clicks so far
    windows            \* the feature windows opened so far, in order

mainVars ==
    << env, spotify_client, buttons, dialogs, helper_calls, click_outcome, nclicks, windows >>

\* The liked-songs window of show_liked_songs.
VARIABLES
    window_pc,            \* position in show_liked_songs and its two handlers
    window_force_refresh, \* the argument force_refresh of load_and_display_data
    current_liked_songs,  \* the nonlocal list the handlers share
    refresh_button,       \* the state option of each button
    export_button,
    summary_label,        \* the text of the summary label
    window_dialogs,       \* the message boxes the last handler showed, in order
    last_success          \* what the last successful load returned (kept for the proofs)

windowVars ==
    << window_pc, window_force_refresh, current_liked_songs, refresh_button, export_button,
       summary_label, window_dialogs, last_success >>

appVars == << analysisVars, exportVars, insightsVars, mainVars, windowVars >>

allVars == << vars, appVars >>

\* An empty dict.
EmptyDict == [k \in {} |-> k]

\* No analysis is under way.
AnalysisIdle ==
    /\ tracks = <<>>
    /\ analysis_limit = 0
    /\ analysis_pc = "idle"
    /\ track_ids = <<>>
    /\ artist_ids = <<>>
    /\ batch_i = 0
    /\ audio_features = <<>>
    /\ artist_genres = EmptyDict
    /\ feature_requests = <<>>
    /\ genre_requests = <<>>
    /\ failed_requests = <<>>
    /\ analysis = [kind |-> "none"]

\* No export has been asked for.
ExportIdle ==
    /\ export_songs = <<>>
    /\ export_given = <<>>
    /\ export_file = [exists |-> FALSE]
    /\ export_result = [kind |-> "none"]
    /\ export_failure = FALSE

\* No insights have been asked for.
InsightsIdle ==
    /\ insights_analysis = [t |-> "None"]
    /\ insights = [kind |-> "none"]

\* The main window is not open.
MainIdle ==
    /\ env = [SPOTIPY_CLIENT_ID |-> FALSE, SPOTIPY_CLIENT_SECRET |-> FALSE,
              SPOTIPY_REDIRECT_URI |-> FALSE]
    /\ spotify_client = [t |-> "None"]
    /\ buttons = EmptyDict
    /\ dialogs = <<>>
    /\ helper_calls = <<>>
    /\ click_outcome = [kind |-> "none"]
    /\ nclicks = 0
    /\ windows = <<>>

\* The liked-songs window is not open.
WindowIdle ==
    /\ window_pc = "closed"
    /\ window_force_refresh = FALSE
    /\ current_liked_songs = <<>>
    /\ refresh_button = "normal"
    /\ export_button = "normal"
    /\ summary_label = <<>>
    /\ window_dialogs = <<>>
    /\ last_success = [kind |-> "none"]

NoResult == [kind |-> "none"]

Raised == [kind |-> "raise"]

\* return liked_songs, cache_info, username: the list returned is the local
\* liked_songs as it stands at the return.
Returned(cache_info, name) == [kind |-> "return", cache_info |-> cache_info, username |-> name]

\* The calls a behaviour starts without: a library of several pages is
\* loaded once, and each file found at start-up beyond the first takes one
\* call off, one call at least being left.
CallsSpent(nfiles, nsongs) ==
    LET spent == IF nsongs > limit THEN MaxCalls - 1
                 ELSE IF nfiles > 1 THEN nfiles - 1 ELSE 0
    IN  IF spent < MaxCalls THEN spent ELSE MaxCalls - 1

Init ==
    /\ user \in Users
    /\ \E n \in LibrarySizes : library = Library(n)
    /\ \E pool \in StartPools(user) :
          /\ files = FileSystem(pool)
          /\ ncalls = CallsSpent(Cardinality(pool), Len(library))
    /\ now = 0
    /\ mclock = 10
    /\ pc = "idle"
    /\ force_refresh = FALSE
    /\ username = <<>>
    /\ liked_songs = <<>>
    /\ offset = 0
    /\ requests = <<>>
    /\ cache_read = <<>>
    /\ cache_filename = <<>>
    /\ failures = <<>>
    /\ result = NoResult
    /\ files_before = files
    /\ writes = <<>>
    /\ AnalysisIdle
    /\ ExportIdle
    /\ InsightsIdle
    /\ MainIdle
    /\ WindowIdle

\* ---------------------------------------------------------------- actions
SavedTracksRequest(lim, off) == [op |-> "current_user_saved_tracks", limit |-> lim, offset |-> off]

ProfileRequest == [op |-> "current_user"]

\* Call as it would be if the cache were consulted whatever force_refresh is.
Call_ConsultsCache(force) ==
    /\ pc \in {"idle", "done", "raised"}
    /\ ncalls < MaxCalls
    /\ ncalls' = ncalls + 1
    /\ force_refresh' = force
    /\ requests' = <<ProfileRequest>>
    /\ username' = UserKey(user)
    /\ liked_songs' = <<>>
    /\ offset' = 0
    /\ cache_read' = <<>>
    /\ cache_filename' = <<>>
    /\ failures' = <<>>
    /\ result' = NoResult
    /\ files_before' = files
    /\ pc' = "lookup"
    /\ UNCHANGED <<user, library, files, now, mclock, writes>>
    /\ UNCHANGED appVars

\* load_liked_songs_data(spotify_client, force_refresh=force) is called:
\* current_user() answers and username is built from it.
Call(force) ==
    /\ pc \in {"idle", "done", "raised"}
    /\ ncalls < MaxCalls
    /\ ncalls' = ncalls + 1
    /\ force_refresh' = force
    /\ requests' = <<ProfileRequest>>
    /\ username' = UserKey(user)
    /\ liked_songs' = <<>>
    /\ offset' = 0
    /\ cache_read' = <<>>
    /\ cache_filename' = <<>>
    /\ failures' = <<>>
    /\ result' = NoResult
    /\ files_before' = files
    /\ pc' = IF ~force THEN "lookup" ELSE "fetch"
    /\ UNCHANGED <<user, library, files, now, mclock, writes>>
    /\ UNCHANGED appVars

\* The same call when current_user() raises: the exception leaves the
\* function.
CallProfileFails(force) ==
    /\ pc \in {"idle", "done", "raised"}
    /\ ncalls < MaxCalls
    /\ ncalls' = ncalls + 1
    /\ force_refresh' = force
    /\ requests' = <<ProfileRequest>>
    /\ username' = <<>>
    /\ liked_songs' = <<>>
    /\ offset' = 0
    /\ cache_read' = <<>>
    /\ cache_filename' = <<>>
    /\ failures' = <<ProfileRequest>>
    /\ result' = Raised
    /\ files_before' = files
    /\ pc' = "raised"
    /\ UNCHANGED <<user, library, files, now, mclock, writes>>
    /\ UNCHANGED appVars

\* cache_info = f" (Loaded from cache: {cached_at[:10]})"
LoadedFromCache(cached_at) == <<" (Loaded from cache: ">> \o Slice(cached_at, 0, 10) \o <<")">>

\* CacheLookup as it would be if a cache hit did not return.
CacheLookup_IgnoresCache ==
    /\ pc = "lookup"
    /\ pc' = "fetch"
    /\ \/ /\ get_latest_cache_file(files, username) = {}
          /\ UNCHANGED cache_read
       \/ \E cache_file \in get_latest_cache_file(files, username) :
            cache_read' = Append(cache_read, cache_file)
    /\ UNCHANGED <<user, library, files, now, mclock, force_refresh, username, offset,
                   liked_songs, result, requests, cache_filename, failures, files_before,
                   ncalls, writes>>
    /\ UNCHANGED appVars

\* CacheLookup as it would be if it went on to the user's older snapshots
\* until one parses.
CacheLookup_FallsBack ==
    /\ pc = "lookup"
    /\ LET cache_files == Glob(DOMAIN files, username, <<".csv">>)
                             \cup Glob(DOMAIN files, username, <<".txt">>)
           parseable == { n \in cache_files : ReadSnapshot(files, n).hit }
       IN  \/ /\ parseable = {}
              /\ pc' = "fetch"
              /\ UNCHANGED <<cache_read, liked_songs, result>>
           \/ \E cache_file \in parseable :
                LET cached_data == ReadSnapshot(files, cache_file)
                IN  /\ \A m \in parseable : files[m].mtime <= files[cache_file].mtime
                    /\ cache_read' = Append(cache_read, cache_file)
                    /\ liked_songs' = cached_data.liked_songs
                    /\ result' = Returned(LoadedFromCache(cached_data.cached_at), username)
                    /\ pc' = "done"
    /\ UNCHANGED <<user, library, files, now, mclock, force_refresh, username, offset,
                   requests, cache_filename, failures, files_before, ncalls, writes>>
    /\ UNCHANGED appVars

\* if not force_refresh: cached_data = load_liked_songs_from_cache(username),
\* returned when it is truthy.
CacheLookup ==
    /\ pc = "lookup"
    /\ \/ /\ get_latest_cache_file(files, username) = {}
          /\ pc' = "fetch"
          /\ UNCHANGED <<cache_read, liked_songs, result>>
       \/ \E cache_file \in get_latest_cache_file(files, username) :
            LET cached_data == ReadSnapshot(files, cache_file)
            IN  /\ cache_read' = Append(cache_read, cache_file)
                /\ IF cached_data.hit
                   THEN /\ liked_songs' = cached_data.liked_songs
                        /\ result' = Returned(LoadedFromCache(cached_data.cached_at), username)
                        /\ pc' = "done"
                   ELSE /\ pc' = "fetch"
                        /\ UNCHANGED <<liked_songs, result>>
    /\ UNCHANGED <<user, library, files, now, mclock, force_refresh, username, offset,
                   requests, cache_filename, failures, files_before, ncalls, writes>>
    /\ UNCHANGED appVars

\* FetchPage as it would be if the loop stopped at the first page shorter
\* than limit instead of the first empty one.
FetchPage_StopsOnShortPage ==
    /\ pc = "fetch"
    /\ LET results == [items |-> SavedTracksPage(library, limit, offset)]
       IN  /\ requests' = Append(requests, SavedTracksRequest(limit, offset))
           /\ liked_songs' = liked_songs \o results.items
           /\ offset' = offset + limit
           /\ pc' = IF Len(results.items) < limit THEN "save" ELSE "fetch"
    /\ UNCHANGED <<user, library, files, now, mclock, force_refresh, username, cache_read,
                   cache_filename, failures, result, files_before, ncalls, writes>>
    /\ UNCHANGED appVars

\* One turn of the while loop: the page at offset is requested and answers.
FetchPage ==
    /\ pc = "fetch"
    /\ LET results == [items |-> SavedTracksPage(library, limit, offset)]
       IN  /\ requests' = Append(requests, SavedTracksRequest(limit, offset))
           /\ IF results.items = <<>>
              THEN /\ pc' = "save"
                   /\ UNCHANGED <<liked_songs, offset>>
              ELSE /\ liked_songs' = liked_songs \o results.items
                   /\ offset' = offset + limit
                   /\ pc' = "fetch"
    /\ UNCHANGED <<user, library, files, now, mclock, force_refresh, username, cache_read,
                   cache_filename, failures, result, files_before, ncalls, writes>>
    /\ UNCHANGED appVars

\* FetchPageFails as it would be if the loop caught the exception and kept
\* the pages fetched so far.
FetchPageFails_KeepsPartial ==
    /\ pc = "fetch"
    /\ requests' = Append(requests, SavedTracksRequest(limit, offset))
    /\ failures' = Append(failures, SavedTracksRequest(limit, offset))
    /\ pc' = "save"
    /\ UNCHANGED <<user, library, files, now, mclock, force_refresh, username, liked_songs,
                   offset, cache_read, cache_filename, result, files_before, ncalls, writes>>
    /\ UNCHANGED appVars

\* One turn of the while loop when the request raises: nothing catches it.
FetchPageFails ==
    /\ pc = "fetch"
    /\ requests' = Append(requests, SavedTracksRequest(limit, offset))
    /\ failures' = Append(failures, SavedTracksRequest(limit, offset))
    /\ result' = Raised
    /\ pc' = "raised"
    /\ UNCHANGED <<user, library, files, now, mclock, force_refresh, username, liked_songs,
                   offset, cache_read, cache_filename, files_before, ncalls, writes>>
    /\ UNCHANGED appVars

\* A second of wall-clock time passes before the snapshot's name is made.
Tick ==
    /\ pc = "save"
    /\ now < MaxClock
    /\ now' = now + 1
    /\ UNCHANGED <<user, library, files, mclock, pc, force_refresh, username, liked_songs,
                   offset, requests, cache_read, cache_filename, failures, result,
                   files_before, ncalls, writes>>
    /\ UNCHANGED appVars

\* open(cache_filename, 'w') and the rows written: the file is created, or
\* replaced when the name exists.
WriteFile(fs, name, rows, mtime, owner) ==
    [ n \in DOMAIN fs \cup {name} |->
        IF n = name THEN [mtime |-> mtime, content |-> rows, owner |-> owner] ELSE fs[n] ]

\* cache_info = f" (Fresh data saved to cache: {cache_filename})"
SavedToCache(name) == <<" (Fresh data saved to cache: ">> \o name \o <<")">>

FreshFromSpotify == <<" (Fresh data from Spotify)">>

\* save_liked_songs_to_cache returns the file name; the fresh list is returned.
SaveSucceeds ==
    /\ pc = "save"
    /\ LET name == get_cache_filename(username, now)
           rows == SnapshotRows(liked_songs)
       IN  /\ files' = WriteFile(files, name, rows, mclock + 1, username)
           /\ writes' = Append(writes, [name |-> name, content |-> rows, second |-> now,
                                        mtime |-> mclock + 1, ok |-> TRUE])
           /\ cache_filename' = name
           /\ result' = Returned(SavedToCache(name), username)
    /\ mclock' = mclock + 1
    /\ pc' = "done"
    /\ UNCHANGED <<user, library, now, force_refresh, username, liked_songs, offset, requests,
                   cache_read, failures, files_before, ncalls>>
    /\ UNCHANGED appVars

\* SaveFails as it would be if the write's exception left the function.
SaveFails_Raises ==
    /\ pc = "save"
    /\ cache_filename' = None
    /\ result' = Raised
    /\ pc' = "raised"
    /\ UNCHANGED <<user, library, files, mclock, writes, now, force_refresh, username,
                   liked_songs, offset, requests, cache_read, failures, files_before, ncalls>>
    /\ UNCHANGED appVars

\* The numbers of rows a failing write can leave in the file.
PartialCuts(rows) == {Len(rows) \div 2}

\* save_liked_songs_to_cache catches an exception and returns None: open()
\* raised and no file was touched, or a write raised after open() had
\* created or truncated the file and some rows had reached it.
SaveFails ==
    /\ pc = "save"
    /\ LET name == get_cache_filename(username, now)
           rows == SnapshotRows(liked_songs)
       IN  \/ UNCHANGED <<files, mclock, writes>>
           \/ \E cut \in PartialCuts(rows) :
                /\ files' = WriteFile(files, name, SubSeq(rows, 1, cut), mclock + 1, username)
                /\ writes' = Append(writes, [name |-> name, content |-> SubSeq(rows, 1, cut),
                                             second |-> now, mtime |-> mclock + 1,
                                             ok |-> FALSE])
                /\ mclock' = mclock + 1
    /\ cache_filename' = None
    /\ result' = Returned(FreshFromSpotify, username)
    /\ pc' = "done"
    /\ UNCHANGED <<user, library, now, force_refresh, username, liked_songs, offset, requests,
                   cache_read, failures, files_before, ncalls>>
    /\ UNCHANGED appVars

Next ==
    \/ \E force \in BOOLEAN : Call(force)
    \/ \E force \in BOOLEAN : CallProfileFails(force)
    \/ CacheLookup
    \/ FetchPage
    \/ FetchPageFails
    \/ Tick
    \/ SaveSucceeds
    \/ SaveFails

Spec == Init /\ [][Next]_vars

\* load_liked_songs_data is not under way and the directory is empty.
LoadIdle ==
    /\ user = Bob
    /\ library = <<>>
    /\ files = FileSystem({})
    /\ now = 0
    /\ mclock = 10
    /\ pc = "idle"
    /\ force_refresh = FALSE
    /\ username = <<>>
    /\ liked_songs = <<>>
    /\ offset = 0
    /\ requests = <<>>
    /\ cache_read = <<>>
    /\ cache_filename = <<>>
    /\ failures = <<>>
    /\ result = NoResult
    /\ files_before = files
    /\ ncalls = 0
    /\ writes = <<>>

\* ------------------------------------------------------------------ claims
\* The paged requests of the call, in the order they were issued.
PagedRequests == SelectSeq(requests, LAMBDA r : r.op = "current_user_saved_tracks")

\* current_user() has answered in the call the state belongs to.
ProfileAnswered == username # <<>>

\* When the call was made, the user's most recently modified snapshot was
\* one the reader parses, whichever of several newest files it opens.
CacheHitAtCall == NoData \notin load_liked_songs_from_cache(files_before, username)

\* The call returned the entries of the snapshot that was the newest when
\* it was made, leaving the directory as it was.
ReturnedCachedEntries ==
    /\ result.kind = "return"
    /\ Len(cache_read) = 1
    /\ cache_read[1] \in get_latest_cache_file(files_before, username)
    /\ liked_songs = ReadSnapshot(files_before, cache_read[1]).liked_songs
    /\ files = files_before

NonEmptyPages(n) == (n + 49) \div 50

\* The requests of a full paginated fetch of a library of n entries.
FullFetchRequests(n) == [i \in 1..(NonEmptyPages(n) + 1) |-> SavedTracksRequest(50, 50 * (i - 1))]

\* C2: a call with force_refresh=True never reads the cache store, and when
\* it returns it has issued every request of the full paginated fetch and
\* returns the fetched entries, whatever snapshots exist.
C2_ForceRefreshAlwaysFetches ==
    (ProfileAnswered /\ force_refresh)
        => /\ pc # "lookup"
           /\ cache_read = <<>>
           /\ pc = "done" => /\ result.kind = "return"
                             /\ PagedRequests = FullFetchRequests(Len(library))
                             /\ liked_songs = library

C2_Witness ==
    /\ ProfileAnswered /\ force_refresh /\ pc = "done"
    /\ CacheHitAtCall
    /\ \E f \in get_latest_cache_file(files_before, username) :
          ReadSnapshot(files_before, f).liked_songs # liked_songs
    /\ Len(liked_songs) = 23

\* The while loop has ended by its break.
FetchCompleted == pc = "save" \/ (pc = "done" /\ cache_filename # <<>>)

\* C3: the paged requests have limit 50 and offsets 0, 50, 100, ... in that
\* order; while the loop runs every page requested so far was non-empty and
\* liked_songs is their concatenation in request order; the loop ends at
\* the first empty page, after k+1 requests for k non-empty pages, with all
\* entries (4 requests and 123 entries for pages of 50, 50, 23, 0).
C3_PaginationLoop ==
    /\ \A i \in 1..Len(PagedRequests) : PagedRequests[i] = SavedTracksRequest(50, 50 * (i - 1))
    /\ pc = "fetch" =>
          /\ Len(PagedRequests) * 50 = offset
          /\ \A i \in 1..Len(PagedRequests) : SavedTracksPage(library, 50, 50 * (i - 1)) # <<>>
          /\ offset <= Len(library) + 49
          /\ liked_songs = SubSeq(library, 1, IF offset < Len(library) THEN offset ELSE Len(library))
    /\ FetchCompleted =>
          /\ Len(PagedRequests) = NonEmptyPages(Len(library)) + 1
          /\ SavedTracksPage(library, 50, 50 * (Len(PagedRequests) - 1)) = <<>>
          /\ \A i \in 1..(Len(PagedRequests) - 1) :
                SavedTracksPage(library, 50, 50 * (i - 1)) # <<>>
          /\ liked_songs = library
          /\ Len(library) = 123 => (Len(PagedRequests) = 4 /\ Len(liked_songs) = 123)

C3_Witness ==
    /\ pc = "save"
    /\ Len(liked_songs) = 123
    /\ PagedRequests = << SavedTracksRequest(50, 0), SavedTracksRequest(50, 50),
                          SavedTracksRequest(50, 100), SavedTracksRequest(50, 150) >>

\* No request was issued twice in the call.
NoRequestRepeated ==
    \A i \in 1..Len(requests) : \A j \in 1..Len(requests) : requests[i] = requests[j] => i = j

\* C4: when a request of the call has raised, the call has raised as a
\* whole: that request was the last one issued (no retry, no later page),
\* nothing was returned, save_liked_songs_to_cache was not reached, and the
\* directory is as it was when the call was made.
C4_RequestFailureFailsCall ==
    failures # <<>>
        => /\ pc = "raised"
           /\ result = Raised
           /\ Len(failures) = 1
           /\ requests[Len(requests)] = failures[1]
           /\ NoRequestRepeated
           /\ cache_filename = <<>>
           /\ files = files_before

C4_Witness ==
    /\ failures = <<SavedTracksRequest(50, 50)>>
    /\ Len(liked_songs) = 50
    /\ DOMAIN files # {}
    /\ pc = "raised"

\* C5: once save_liked_songs_to_cache has returned, the call returns every
\* fetched entry in order together with the user key; a failed write (None)
\* changes the provenance note alone, to " (Fresh data from Spotify)" from
\* the note naming the cache file.
C5_WriteFailureOnlyChangesNote ==
    cache_filename # <<>>
        => /\ pc = "done"
           /\ result.kind = "return"
           /\ result.username = UserKey(user)
           /\ liked_songs = library
           /\ result.cache_info =
                 IF cache_filename = None THEN <<" (Fresh data from Spotify)">>
                 ELSE <<" (Fresh data saved to cache: ">> \o cache_filename \o <<")">>

C5_Witness ==
    /\ cache_filename = None
    /\ pc = "done"
    /\ Len(liked_songs) = 73
    /\ files # files_before

\* The columns the reader indexes without a default.
RequiredColumns == {"Title", "Artist", "Duration", "Popularity", "Spotify URL", "Liked Date"}

\* The file's first row does not name every required column (a legacy text
\* file, an earlier CSV format, an empty file).
MissingRequiredColumn(content) ==
    \/ Len(content) = 0
    \/ \E key \in RequiredColumns : \A i \in 1..Len(content[1]) : content[1][i] # <<key>>

\* A token that is no digit, or no token at all.
NotANumber(text) == text = <<>> \/ \E i \in 1..Len(text) : text[i] \notin Digit

\* Some data row has a Duration with ':' whose minutes or seconds are not
\* numbers.
NonNumericDuration(content) ==
    /\ ~MissingRequiredColumn(content)
    /\ \E r \in 2..Len(content) :
          LET d == content[r][FieldIndex(content[1], "Duration")]
          IN  /\ Contains(d, ":")
              /\ \/ NotANumber(Split(d, ":")[1])
                 \/ NotANumber(Split(d, ":")[2])

Malformed(content) == MissingRequiredColumn(content) \/ NonNumericDuration(content)

\* Every data row has a field for every column.
AllRowsFull(content) == \A r \in 2..Len(content) : Len(content[r]) >= Len(content[1])

\* The snapshot the call opened, as it was when the call was made.
OpenedContent == files_before[cache_read[1]].content

\* The call went on as it does when the user has no snapshot at all: the
\* full paginated fetch, and the fetched entries returned.
TreatedAsNoCache ==
    /\ pc # "lookup"
    /\ pc = "done" => /\ cache_filename # <<>>
                      /\ PagedRequests = FullFetchRequests(Len(library))
                      /\ liked_songs = library

\* The call returned what the reader made of the opened snapshot.
ServedFromCache ==
    /\ pc = "done"
    /\ cache_filename = <<>>
    /\ PagedRequests = <<>>
    /\ Len(liked_songs) = Len(DataRows(OpenedContent))

\* C6 as stated: every malformed snapshot the call opens reads as None and
\* the call goes on as without any snapshot.
C6_MalformedSnapshotIsNoCache ==
    (ProfileAnswered /\ cache_read # <<>> /\ Malformed(OpenedContent)) => TreatedAsNoCache

\* C6 as amended: a malformed snapshot that has at least one data row reads
\* as None and the call goes on as without any snapshot; a snapshot without
\* data rows reads as an empty entry list, whatever its first row, and is
\* served; a well-formed snapshot is served with popularity 0 in every row
\* whose Popularity is not a number.
C6_MalformedRowsAreNoCache ==
    (ProfileAnswered /\ cache_read # <<>>)
        => /\ (Malformed(OpenedContent) /\ DataRows(OpenedContent) # <<>>) => TreatedAsNoCache
           /\ DataRows(OpenedContent) = <<>> => (ServedFromCache /\ liked_songs = <<>>)
           /\ (~Malformed(OpenedContent) /\ AllRowsFull(OpenedContent))
                 => /\ ServedFromCache
                    /\ \A r \in 1..Len(liked_songs) :
                          LET p == DataRows(OpenedContent)[r][FieldIndex(OpenedContent[1], "Popularity")]
                          IN  NotANumber(p) => liked_songs[r].track.popularity = PyInt(0)

C6_Witness ==
    /\ ProfileAnswered /\ cache_read # <<>>
    /\ NonNumericDuration(OpenedContent)
    /\ pc = "done"
    /\ Len(liked_songs) = 23

\* The files on disk that were written for the user key: its snapshots.
SnapshotsOf(key) == { n \in DOMAIN files : files[n].owner = key }

\* C7 as stated: get_latest_cache_file(user_key) returns None exactly when
\* the user has no snapshot, and otherwise a snapshot of that user whose
\* modification time is the greatest among that user's snapshots; never a
\* file written for another user key.
C7_LatestIsUsersNewest ==
    LET returned == get_latest_cache_file(files, BobKey)
    IN  /\ returned = {} <=> SnapshotsOf(BobKey) = {}
        /\ \A f \in returned :
              /\ f \in SnapshotsOf(BobKey)
              /\ \A g \in SnapshotsOf(BobKey) : files[g].mtime <= files[f].mtime

\* save_liked_songs_to_cache has just returned a file name to the call.
SnapshotJustWritten == cache_filename # <<>> /\ cache_filename # None

\* The names of the artists of an entry, in order.
ArtistNamesOf(item) == [a \in 1..Len(item.track.artists) |-> item.track.artists[a].name]

\* C8 as stated: the file written from a non-empty entry list (the export
\* writes the same rows) reads back, entry by entry, with the same sequence
\* of artist names, the same title, album name and liked date.
C8_RoundTripKeepsTextFields ==
    (SnapshotJustWritten /\ liked_songs # <<>>)
        => LET read == ReadSnapshot(files, cache_filename)
           IN  /\ ExportRows(liked_songs) = files[cache_filename].content
               /\ read.hit
               /\ Len(read.liked_songs) = Len(liked_songs)
               /\ \A i \in 1..Len(liked_songs) :
                     /\ ArtistNamesOf(read.liked_songs[i]) = ArtistNamesOf(liked_songs[i])
                     /\ read.liked_songs[i].track.name = liked_songs[i].track.name
                     /\ read.liked_songs[i].track.album.name = liked_songs[i].track.album.name
                     /\ DatePrefix(read.liked_songs[i].added_at) = DatePrefix(liked_songs[i].added_at)

\* C9: the snapshot written from a list of n entries, n >= 0, reads back
\* as n entries, the i-th with the track id and title of the i-th written.
C9_RoundTripKeepsSequence ==
    SnapshotJustWritten
        => LET read == ReadSnapshot(files, cache_filename)
           IN  /\ read.hit
               /\ Len(read.liked_songs) = Len(liked_songs)
               /\ \A i \in 1..Len(liked_songs) :
                     /\ read.liked_songs[i].track.id = liked_songs[i].track.id
                     /\ read.liked_songs[i].track.name = liked_songs[i].track.name

C9_Witness ==
    /\ SnapshotJustWritten
    /\ Len(liked_songs) = 123
    /\ Len(ReadSnapshot(files, cache_filename).liked_songs) = 123

\* The files created since start-up.
NewFiles == { n \in DOMAIN files : \A f \in FilePool : f.name # n }

\* C10 as stated: every snapshot a successful write produced still exists
\* with the content and modification time it was written with, and the
\* number of files created equals the number of successful writes.
C10_SnapshotsNeverOverwritten ==
    /\ \A i \in 1..Len(writes) :
          writes[i].ok => /\ writes[i].name \in DOMAIN files
                          /\ files[writes[i].name].content = writes[i].content
                          /\ files[writes[i].name].mtime = writes[i].mtime
    /\ Cardinality(NewFiles) = Len(SelectSeq(writes, LAMBDA w : w.ok))

\* No later write reached the disk in the second of the i-th one.
AloneInItsSecond(i) == \A j \in (i + 1)..Len(writes) : writes[j].second # writes[i].second

\* C10 as amended: a write touches no file but the one named for the
\* current second.  What a write put on disk is still there, content and
\* modification time, unless a later write, successful or failed, reached
\* the disk within the same second; the files found at start-up and at the
\* call are untouched; and the number of files created is the number of
\* seconds in which a write reached the disk, which is the number of
\* successful writes when no write failed after opening its file and no
\* two fell in one second.
C10_OnlyOverwrittenWithinOneSecond ==
    /\ \A i \in 1..Len(writes) :
          AloneInItsSecond(i) => /\ writes[i].name \in DOMAIN files
                                 /\ files[writes[i].name].content = writes[i].content
                                 /\ files[writes[i].name].mtime = writes[i].mtime
    /\ \A n \in DOMAIN files_before :
          /\ n \in DOMAIN files
          /\ n # get_cache_filename(username, now) => files[n] = files_before[n]
    /\ \A f \in FilePool : f.name \in DOMAIN files => files[f.name].content = f.content
    /\ Cardinality(NewFiles) = Cardinality({ writes[i].second : i \in 1..Len(writes) })
    /\ ((\A i \in 1..Len(writes) : writes[i].ok /\ AloneInItsSecond(i))
          => Cardinality(NewFiles) = Len(writes))

C10_Witness ==
    /\ Len(writes) = 2
    /\ writes[1].ok /\ writes[2].ok
    /\ writes[1].second # writes[2].second
    /\ Cardinality(NewFiles) = 2
    /\ DOMAIN files_before # {}
    /\ Len(writes[1].content) > 1

\* =================================================== analyze_music_taste
\* ------------------------------------------------- the API's answers to it
\* batch_size = 50 in analyze_music_taste
batch_size == 50

GenreNames ==
    << "pop", "rock", "jazz", "rap", "folk", "soul", "punk", "funk", "metal", "blues",
       "house", "disco" >>

WideArtist(k) == [name |-> <<"Artist", " ">> \o Str(k), id |-> <<"r">> \o Str(k)]

\* The i-th saved track of a user with a wide taste, as the API returns it:
\* many artists, albums and release years; some tracks have two artists, a
\* local track has no id, and some albums have no release date.
WideTrack(i) ==
    [ id |-> IF i % 11 = 0 THEN <<>> ELSE <<"w">> \o Str(i),
      name |-> <<"Tune", " ">> \o Str(i),
      artists |->
          IF i % 4 = 0 THEN <<WideArtist(i % 57), WideArtist(57)>>
          ELSE <<WideArtist(i % 57)>>,
      album |-> [ name |-> <<"LP", " ">> \o Str((i * i) % 13),
                  release_date |->
                      IF i % 9 = 0 THEN <<>>
                      ELSE Str(1990 + ((i * 5) % 14)) \o <<"-", "0", "1">> ],
      duration_ms |-> 1000 * i,
      popularity |-> PyInt(i % 101),
      external_urls |-> [spotify |-> <<"https://open.spotify.com/track/w">> \o Str(i)] ]

WideItem(i) ==
    [ track |-> WideTrack(i),
      added_at |-> <<LikedDates[(i % 3) + 1], "T10:11:12Z">> ]

WideLibrary(n) == [i \in 1..n |-> WideItem(i)]

\* The liked songs load_liked_songs_from_cache returns for the snapshot
\* written from the list songs.
CachedCopy(songs) ==
    LET rows == DataRows(SnapshotRows(songs))
    IN  [r \in 1..Len(rows) |-> TrackData(Header, rows[r])]

\* The number a track id or artist id ends in.
IdNumber(id) == IntOf(SelectSeq(id, LAMBDA tok : tok \in Digit))

\* artist.get('genres', []) of the artist object the API returns for an id
GenresOfArtist(artist_id) ==
    IF artist_id = <<"a1">> THEN <<"pop", "soul">>
    ELSE IF artist_id = <<"a2">> THEN <<"rock">>
    ELSE IF artist_id = <<"a3">> THEN <<"rap", "pop">>
    ELSE IF artist_id = <<"a4">> THEN <<>>
    ELSE LET k == IdNumber(artist_id)
         IN  IF k % 10 = 9 THEN <<>>
             ELSE <<GenreNames[(k % 12) + 1], GenreNames[((k \div 3) % 12) + 1]>>

\* A float, kept exactly as the fraction num / den.
PyFloat(num, den) == [t |-> "float", num |-> num, den |-> den]

feature_names ==
    << "danceability", "energy", "valence", "tempo", "acousticness", "instrumentalness",
       "liveness", "speechiness" >>

FeatureNameSet == { feature_names[j] : j \in 1..Len(feature_names) }

\* One element of the list spotify_client.audio_features returns: the
\* features of a track, or None for a track the API has no analysis of; a
\* single feature can be null.  Values are in thousandths.
AudioFeaturesOfTrack(track_id) ==
    LET n == IdNumber(track_id)
        value(feature) ==
            IF feature = "danceability"
            THEN IF n % 5 = 0 THEN PyNone ELSE PyFloat((n * 137) % 1001, 1000)
            ELSE IF feature = "tempo" THEN PyFloat((60 + ((n * 13) % 120)) * 1000, 1000)
            ELSE IF feature = "liveness" THEN PyNone
            ELSE IF feature = "energy" THEN PyFloat((n * 211) % 1001, 1000)
            ELSE IF feature = "valence" THEN PyFloat((n * 53) % 1001, 1000)
            ELSE IF feature = "acousticness" THEN PyFloat(1000 - ((n * 7) % 1001), 1000)
            ELSE IF feature = "instrumentalness" THEN PyFloat((n * n) % 1001, 1000)
            ELSE PyFloat(40 + (n % 3), 1000)
    IN  IF n % 7 = 0 THEN PyNone
        ELSE [t |-> "dict", features |-> [feature \in FeatureNameSet |-> value(feature)]]

\* ------------------------------------------------------ its computations
\* s[:b]
SliceTo(s, b) ==
    IF b >= 0 THEN Slice(s, 0, b)
    ELSE Slice(s, 0, IF Len(s) + b > 0 THEN Len(s) + b ELSE 0)

\* tracks_to_analyze = tracks[:limit]
TracksToAnalyze(all_tracks, lim) == SliceTo(all_tracks, lim)

\* The id lookups of the two comprehension loops raise KeyError.
IdLookupRaises(tks) ==
    \E i \in 1..Len(tks) :
        \/ "id" \notin DOMAIN tks[i].track
        \/ \E a \in 1..Len(tks[i].track.artists) : "id" \notin DOMAIN tks[i].track.artists[a]

\* The concatenation of a sequence of sequences.
RECURSIVE Flatten(_)
Flatten(ss) ==
    IF Len(ss) = 0 THEN <<>>
    ELSE IF Len(ss) = 1 THEN ss[1]
    ELSE Flatten(SubSeq(ss, 1, Len(ss) \div 2))
            \o Flatten(SubSeq(ss, (Len(ss) \div 2) + 1, Len(ss)))

\* The distinct elements of keys, in the order of their first occurrence:
\* the key order of a dict filled in that order.
FirstSeen(keys) ==
    LET firsts == { i \in 1..Len(keys) : \A j \in 1..(i - 1) : keys[j] # keys[i] }
        rank(i) == Cardinality({ j \in firsts : j <= i })
    IN  [p \in 1..Cardinality(firsts) |-> keys[CHOOSE i \in firsts : rank(i) = p]]

\* track_ids = [track['track']['id'] for track in tracks_to_analyze if track['track']['id']]
TrackIds(tks) ==
    LET ids == [i \in 1..Len(tks) |-> tks[i].track.id]
    IN  SelectSeq(ids, LAMBDA id : id # <<>> /\ id # None)

\* artist_ids, filled in order without repeats
ArtistIds(tks) ==
    FirstSeen(Flatten([i \in 1..Len(tks) |->
        [a \in 1..Len(tks[i].track.artists) |-> tks[i].track.artists[a].id]]))

\* ids[i:i + batch_size]
Batch(ids, i) == Slice(ids, i, i + batch_size)

\* values = [f[feature] for f in audio_features if f and f[feature] is not None]
FeatureValues(feats, feature) ==
    LET present ==
            SelectSeq(feats, LAMBDA f : IF f.t = "dict" THEN f.features[feature].t = "float"
                                        ELSE FALSE)
    IN  [k \in 1..Len(present) |-> present[k].features[feature]]

\* sum(values), min(values), max(values) of floats of one denominator
RECURSIVE SumNum(_)
SumNum(values) ==
    IF Len(values) = 0 THEN 0
    ELSE IF Len(values) = 1 THEN values[1].num
    ELSE SumNum(SubSeq(values, 1, Len(values) \div 2))
            + SumNum(SubSeq(values, (Len(values) \div 2) + 1, Len(values)))

MinOf(values) ==
    values[CHOOSE i \in 1..Len(values) : \A j \in 1..Len(values) : values[i].num <= values[j].num]

MaxOf(values) ==
    values[CHOOSE i \in 1..Len(values) : \A j \in 1..Len(values) : values[i].num >= values[j].num]

\* feature_analysis: one entry for each feature that has a value
FeatureAnalysis(feats) ==
    [ feature \in { f \in FeatureNameSet : Len(FeatureValues(feats, f)) > 0 } |->
        LET values == FeatureValues(feats, feature)
        IN  [ average |-> PyFloat(SumNum(values), values[1].den * Len(values)),
              min |-> MinOf(values),
              max |-> MaxOf(values),
              count |-> Len(values) ] ]

\* list(count.items()) of a dict filled by count[k] = count.get(k, 0) + 1
\* for the keys in order: (key, count) pairs in the order of first occurrence
CountItems(keys) ==
    LET ks == FirstSeen(keys)
    IN  [p \in 1..Len(ks) |-> <<ks[p], Cardinality({ i \in 1..Len(keys) : keys[i] = ks[p] })>>]

\* SortedReverse as it would be if the list were sorted ascending and then
\* reversed: equal keys come out in reverse order.
SortedReverse_ThenReversed(items, keys) ==
    LET n == Len(items)
        pos(i) == 1 + Cardinality({ j \in 1..n : keys[j] > keys[i] })
                    + Cardinality({ j \in (i + 1)..n : keys[j] = keys[i] })
    IN  [p \in 1..n |-> items[CHOOSE i \in 1..n : pos(i) = p]]

\* sorted(items, key=..., reverse=True), keys[i] being the key of items[i]:
\* descending keys, equal keys in their original order (the sort is stable).
SortedReverse(items, keys) ==
    LET n == Len(items)
        pos(i) == 1 + Cardinality({ j \in 1..n : keys[j] > keys[i] })
                    + Cardinality({ j \in 1..(i - 1) : keys[j] = keys[i] })
    IN  [p \in 1..n |-> items[CHOOSE i \in 1..n : pos(i) = p]]

\* sorted(count.items(), key=lambda x: x[1], reverse=True)[:10]
TopByCount(keys) ==
    LET items == CountItems(keys)
    IN  Slice(SortedReverse(items, [p \in 1..Len(items) |-> items[p][2]]), 0, 10)

\* artist_genres.get(id, [])
DictGet(d, k, default) == IF k \in DOMAIN d THEN d[k] ELSE default

\* d.update(e)
DictUpdate(d, e) ==
    [k \in DOMAIN d \cup DOMAIN e |-> IF k \in DOMAIN e THEN e[k] ELSE d[k]]

\* The genres counted, in the order the loops meet them.
GenreKeys(tks, genres) ==
    Flatten([i \in 1..Len(tks) |->
        Flatten([a \in 1..Len(tks[i].track.artists) |->
            DictGet(genres, tks[i].track.artists[a].id, <<>>)])])

ArtistKeys(tks) ==
    Flatten([i \in 1..Len(tks) |->
        [a \in 1..Len(tks[i].track.artists) |-> tks[i].track.artists[a].name]])

AlbumKeys(tks) == [i \in 1..Len(tks) |-> tks[i].track.album.name]

\* year = release_date[:4] for each release date that is not empty
YearKeys(tks) ==
    LET dated == SelectSeq(tks, LAMBDA e : e.track.album.release_date # <<>>)
    IN  [i \in 1..Len(dated) |-> Slice(dated[i].track.album.release_date, 0, 4)]

\* The year loop raises KeyError, or int() of a year raises ValueError.
YearsRaise(tks) ==
    \/ \E i \in 1..Len(tks) : "release_date" \notin DOMAIN tks[i].track.album
    \/ \E i \in 1..Len(YearKeys(tks)) : ~IsDigitText(YearKeys(tks)[i])

\* sorted(year_count.items(), key=lambda x: int(x[0]), reverse=True)[:10]
TopYears(tks) ==
    LET items == CountItems(YearKeys(tks))
    IN  Slice(SortedReverse(items, [p \in 1..Len(items) |-> IntOf(items[p][1])]), 0, 10)

\* The dict analyze_music_taste returns.
AnalysisDict(tks, all_tracks, feats, genres) ==
    [ t |-> "dict",
      audio_features |-> IF Len(feats) > 0 THEN FeatureAnalysis(feats) ELSE EmptyDict,
      top_genres |-> TopByCount(GenreKeys(tks, genres)),
      top_artists |-> TopByCount(ArtistKeys(tks)),
      top_albums |-> TopByCount(AlbumKeys(tks)),
      top_years |-> TopYears(tks),
      total_tracks_analyzed |-> Len(tks),
      total_tracks |-> Len(all_tracks) ]

\* How the function ends once both batch loops are over.
AnalysisOutcome(tks, all_tracks, feats, genres) ==
    IF YearsRaise(tks) THEN Raised
    ELSE [kind |-> "return", value |-> AnalysisDict(tks, all_tracks, feats, genres)]

\* ------------------------------------------------------------ its actions
\* The lists it is called with: liked songs as fetched, the same as read
\* back from their snapshot, and the liked songs of a user with a wide taste.
AnalysisTrackLists ==
    { Library(n) : n \in LibrarySizes } \cup { CachedCopy(Library(n)) : n \in LibrarySizes }
        \cup { WideLibrary(n) : n \in LibrarySizes }

\* The limits it is called with (limit_var, an integer the user types).
Limits == {-1, 0, 7, batch_size, batch_size + 10, 4 * batch_size}

FeaturesRequest(batch) == [op |-> "audio_features", ids |-> batch]

ArtistsRequest(batch) == [op |-> "artists", ids |-> batch]

\* The function ends, both loops being over.
AnalysisEnds(all_tracks, lim, feats, genres) ==
    LET outcome == AnalysisOutcome(TracksToAnalyze(all_tracks, lim), all_tracks, feats, genres)
    IN  /\ analysis' = outcome
        /\ analysis_pc' = IF outcome.kind = "raise" THEN "raised" ELSE "done"

\* Analyze as it would be if the whole list were analysed whatever limit is.
Analyze_IgnoresLimit(all_tracks, lim) ==
    /\ analysis_pc = "idle"
    /\ Len(all_tracks) > 0
    /\ ~IdLookupRaises(all_tracks)
    /\ tracks' = all_tracks
    /\ analysis_limit' = lim
    /\ track_ids' = TrackIds(all_tracks)
    /\ artist_ids' = ArtistIds(all_tracks)
    /\ analysis_pc' = "features"
    /\ UNCHANGED <<batch_i, audio_features, artist_genres, feature_requests, genre_requests,
                   failed_requests, analysis>>
    /\ UNCHANGED <<vars, exportVars, insightsVars, mainVars, windowVars>>

\* analyze_music_taste(spotify_client, all_tracks, lim) is called and runs
\* up to its first request: None for an empty list, KeyError when an id
\* lookup fails, the end of the function when there is nothing to request.
Analyze(all_tracks, lim) ==
    /\ analysis_pc = "idle"
    /\ tracks' = all_tracks
    /\ analysis_limit' = lim
    /\ UNCHANGED <<batch_i, audio_features, artist_genres, feature_requests, genre_requests,
                   failed_requests>>
    /\ LET tks == TracksToAnalyze(all_tracks, lim)
       IN  IF Len(all_tracks) = 0
           THEN /\ analysis' = [kind |-> "return", value |-> PyNone]
                /\ analysis_pc' = "done"
                /\ UNCHANGED <<track_ids, artist_ids>>
           ELSE IF IdLookupRaises(tks)
           THEN /\ analysis' = Raised
                /\ analysis_pc' = "raised"
                /\ UNCHANGED <<track_ids, artist_ids>>
           ELSE /\ track_ids' = TrackIds(tks)
                /\ artist_ids' = ArtistIds(tks)
                /\ IF Len(TrackIds(tks)) > 0
                   THEN analysis_pc' = "features" /\ UNCHANGED analysis
                   ELSE IF Len(ArtistIds(tks)) > 0
                   THEN analysis_pc' = "genres" /\ UNCHANGED analysis
                   ELSE AnalysisEnds(all_tracks, lim, <<>>, EmptyDict)
    /\ UNCHANGED <<vars, exportVars, insightsVars, mainVars, windowVars>>

\* One turn of the audio-features loop is over.
FeaturesBatchDone(feats) ==
    IF batch_i + batch_size < Len(track_ids)
    THEN /\ batch_i' = batch_i + batch_size
         /\ UNCHANGED <<analysis_pc, analysis>>
    ELSE /\ batch_i' = 0
         /\ IF Len(artist_ids) > 0
            THEN analysis_pc' = "genres" /\ UNCHANGED analysis
            ELSE AnalysisEnds(tracks, analysis_limit, feats, artist_genres)

\* One turn of the audio-features loop: the batch is requested and answers.
AudioFeaturesBatch ==
    /\ analysis_pc = "features"
    /\ LET batch == Batch(track_ids, batch_i)
           batch_features == [k \in 1..Len(batch) |-> AudioFeaturesOfTrack(batch[k])]
       IN  /\ feature_requests' = Append(feature_requests, FeaturesRequest(batch))
           /\ audio_features' = audio_features \o batch_features
           /\ FeaturesBatchDone(audio_features \o batch_features)
    /\ UNCHANGED <<tracks, analysis_limit, track_ids, artist_ids, artist_genres, genre_requests,
                   failed_requests>>
    /\ UNCHANGED <<vars, exportVars, insightsVars, mainVars, windowVars>>

\* AudioFeaturesBatchFails as it would be if a failed batch ended the loop.
AudioFeaturesBatchFails_EndsLoop ==
    /\ analysis_pc = "features"
    /\ LET batch == Batch(track_ids, batch_i)
       IN  /\ feature_requests' = Append(feature_requests, FeaturesRequest(batch))
           /\ failed_requests' = Append(failed_requests, FeaturesRequest(batch))
    /\ batch_i' = 0
    /\ IF Len(artist_ids) > 0
       THEN analysis_pc' = "genres" /\ UNCHANGED analysis
       ELSE AnalysisEnds(tracks, analysis_limit, audio_features, artist_genres)
    /\ UNCHANGED <<tracks, analysis_limit, track_ids, artist_ids, audio_features, artist_genres,
                   genre_requests>>
    /\ UNCHANGED <<vars, exportVars, insightsVars, mainVars, windowVars>>

\* One turn of the audio-features loop when the request raises:
\* get_audio_features returns None and the batch adds nothing.
AudioFeaturesBatchFails ==
    /\ analysis_pc = "features"
    /\ LET batch == Batch(track_ids, batch_i)
       IN  /\ feature_requests' = Append(feature_requests, FeaturesRequest(batch))
           /\ failed_requests' = Append(failed_requests, FeaturesRequest(batch))
    /\ FeaturesBatchDone(audio_features)
    /\ UNCHANGED <<tracks, analysis_limit, track_ids, artist_ids, audio_features, artist_genres,
                   genre_requests>>
    /\ UNCHANGED <<vars, exportVars, insightsVars, mainVars, windowVars>>

\* One turn of the artist-genres loop is over.
GenresBatchDone(genres) ==
    IF batch_i + batch_size < Len(artist_ids)
    THEN /\ batch_i' = batch_i + batch_size
         /\ UNCHANGED <<analysis_pc, analysis>>
    ELSE /\ batch_i' = 0
         /\ AnalysisEnds(tracks, analysis_limit, audio_features, genres)

\* One turn of the artist-genres loop: the batch is requested and answers.
ArtistGenresBatch ==
    /\ analysis_pc = "genres"
    /\ LET batch == Batch(artist_ids, batch_i)
           batch_genres ==
               [id \in { batch[k] : k \in 1..Len(batch) } |-> GenresOfArtist(id)]
       IN  /\ genre_requests' = Append(genre_requests, ArtistsRequest(batch))
           /\ artist_genres' = DictUpdate(artist_genres, batch_genres)
           /\ GenresBatchDone(DictUpdate(artist_genres, batch_genres))
    /\ UNCHANGED <<tracks, analysis_limit, track_ids, artist_ids, audio_features,
                   feature_requests, failed_requests>>
    /\ UNCHANGED <<vars, exportVars, insightsVars, mainVars, windowVars>>

\* One turn of the artist-genres loop when the request raises:
\* get_artist_genres returns {} and the batch adds nothing.
ArtistGenresBatchFails ==
    /\ analysis_pc = "genres"
    /\ LET batch == Batch(artist_ids, batch_i)
       IN  /\ genre_requests' = Append(genre_requests, ArtistsRequest(batch))
           /\ failed_requests' = Append(failed_requests, ArtistsRequest(batch))
    /\ GenresBatchDone(artist_genres)
    /\ UNCHANGED <<tracks, analysis_limit, track_ids, artist_ids, audio_features, artist_genres,
                   feature_requests>>
    /\ UNCHANGED <<vars, exportVars, insightsVars, mainVars, windowVars>>

InitAnalysis ==
    LoadIdle /\ AnalysisIdle /\ ExportIdle /\ InsightsIdle /\ MainIdle /\ WindowIdle

NextAnalysis ==
    \/ \E all_tracks \in AnalysisTrackLists, lim \in Limits : Analyze(all_tracks, lim)
    \/ AudioFeaturesBatch
    \/ AudioFeaturesBatchFails
    \/ ArtistGenresBatch
    \/ ArtistGenresBatchFails

SpecAnalysis == InitAnalysis /\ [][NextAnalysis]_allVars

\* ------------------------------------------------------------------ claims
CachedTrackLists == { CachedCopy(Library(n)) : n \in LibrarySizes \ {0} }

\* The fields analyze_music_taste reads of an entry.
HasAnalysedFields(entry) ==
    /\ "id" \in DOMAIN entry.track
    /\ \A a \in 1..Len(entry.track.artists) :
          {"id", "name"} \subseteq DOMAIN entry.track.artists[a]
    /\ {"name", "release_date"} \subseteq DOMAIN entry.track.album

\* C11: entries read from a snapshot have every field analyze_music_taste
\* reads (each artist's id, the album's release date), and
\* analyze_music_taste, which completes on the fetched entries, completes on
\* the entries read back from their snapshot.
C11_CachedEntriesHaveTheApiShape ==
    (analysis_pc # "idle" /\ tracks \in CachedTrackLists)
        => /\ \A i \in 1..Len(tracks) : HasAnalysedFields(tracks[i])
           /\ analysis # Raised

AnalysisReturned == analysis_pc = "done" /\ analysis.value.t = "dict"

Analysed == TracksToAnalyze(tracks, analysis_limit)

Occurrences(keys, k) == Cardinality({ i \in 1..Len(keys) : keys[i] = k })

FirstAt(keys, k) == CHOOSE i \in 1..Len(keys) : keys[i] = k /\ \A j \in 1..(i - 1) : keys[j] # k

\* Item x comes before item y in a table ordered by descending count, equal
\* counts by first encounter.
BeforeByCount(keys, x, y) ==
    \/ x[2] > y[2]
    \/ x[2] = y[2] /\ FirstAt(keys, x[1]) < FirstAt(keys, y[1])

\* The same for a table ordered by descending year, whatever the counts.
BeforeByYear(keys, x, y) ==
    \/ IntOf(x[1]) > IntOf(y[1])
    \/ IntOf(x[1]) = IntOf(y[1]) /\ FirstAt(keys, x[1]) < FirstAt(keys, y[1])

\* table holds the keys that come first, at most 10, each with its count.
TopTenByCount(table, keys) ==
    /\ Len(table) <= 10
    /\ \A p \in 1..Len(table) :
          table[p][2] > 0 /\ table[p][2] = Occurrences(keys, table[p][1])
    /\ \A p, q \in 1..Len(table) : p < q => BeforeByCount(keys, table[p], table[q])
    /\ \A i \in 1..Len(keys) :
          (\A p \in 1..Len(table) : table[p][1] # keys[i])
              => /\ Len(table) = 10
                 /\ BeforeByCount(keys, table[10], <<keys[i], Occurrences(keys, keys[i])>>)

TopTenByYear(table, keys) ==
    /\ Len(table) <= 10
    /\ \A p \in 1..Len(table) :
          table[p][2] > 0 /\ table[p][2] = Occurrences(keys, table[p][1])
    /\ \A p, q \in 1..Len(table) : p < q => BeforeByYear(keys, table[p], table[q])
    /\ \A i \in 1..Len(keys) :
          (\A p \in 1..Len(table) : table[p][1] # keys[i])
              => /\ Len(table) = 10
                 /\ BeforeByYear(keys, table[10], <<keys[i], Occurrences(keys, keys[i])>>)

\* C12 as claimed: each of the four frequency tables (genre, artist name,
\* album name, release year) holds at most 10 entries ordered by descending
\* count, equal counts by first encounter in track order.
C12_TablesByDescendingCount ==
    AnalysisReturned
        => /\ TopTenByCount(analysis.value.top_genres, GenreKeys(Analysed, artist_genres))
           /\ TopTenByCount(analysis.value.top_artists, ArtistKeys(Analysed))
           /\ TopTenByCount(analysis.value.top_albums, AlbumKeys(Analysed))
           /\ TopTenByCount(analysis.value.top_years, YearKeys(Analysed))

\* C12 as amended: the genre, artist and album tables hold at most 10
\* entries ordered by descending count, equal counts by first encounter; the
\* year table holds the 10 most recent release years, ordered by descending
\* year whatever their counts.
C12_TablesByCountYearsByYear ==
    AnalysisReturned
        => /\ TopTenByCount(analysis.value.top_genres, GenreKeys(Analysed, artist_genres))
           /\ TopTenByCount(analysis.value.top_artists, ArtistKeys(Analysed))
           /\ TopTenByCount(analysis.value.top_albums, AlbumKeys(Analysed))
           /\ TopTenByYear(analysis.value.top_years, YearKeys(Analysed))

\* An analysis returned tables that were cut to 10 entries, a genre table
\* that holds two genres of equal counts, and a year table whose first year
\* is not the most frequent one.
C12_Witness ==
    /\ AnalysisReturned
    /\ Len(FirstSeen(ArtistKeys(Analysed))) > 10
    /\ Len(FirstSeen(YearKeys(Analysed))) > 10
    /\ Len(analysis.value.top_genres) = 10
    /\ \E p \in 1..9 : analysis.value.top_genres[p][2] = analysis.value.top_genres[p + 1][2]
    /\ \E p \in 2..Len(analysis.value.top_years) :
          analysis.value.top_years[p][2] > analysis.value.top_years[1][2]

\* The batches of at most 50 a list of ids is requested in, in order.
AllBatches(ids) ==
    [ b \in 1..((Len(ids) + 49) \div 50) |->
        SubSeq(ids, 50 * (b - 1) + 1, IF 50 * b < Len(ids) THEN 50 * b ELSE Len(ids)) ]

\* The ids of the requests of one kind that were answered.
AnsweredIds(reqs) ==
    { id \in UNION { { r.ids[k] : k \in 1..Len(r.ids) } : r \in { reqs[j] : j \in 1..Len(reqs) } } :
        \E j \in 1..Len(reqs) :
            /\ \A f \in 1..Len(failed_requests) : failed_requests[f] # reqs[j]
            /\ \E k \in 1..Len(reqs[j].ids) : reqs[j].ids[k] = id }

HasValue(track_id, feature) ==
    /\ AudioFeaturesOfTrack(track_id).t = "dict"
    /\ AudioFeaturesOfTrack(track_id).features[feature].t = "float"

\* C13: whichever batch requests fail, the requests issued are the batches
\* of at most 50 ids in order, each exactly once (a prefix of them while the
\* loops run, all of them at the end); a call that has issued a request
\* returns a result; and the result is built from the batches that were
\* answered: a feature's count is the number of answered tracks that have
\* the feature, and the genres known are those of the answered artists.
C13_FailedBatchIsSkipped ==
    /\ \A j \in 1..Len(feature_requests) :
          /\ j <= Len(AllBatches(track_ids))
          /\ feature_requests[j] = FeaturesRequest(AllBatches(track_ids)[j])
    /\ \A j \in 1..Len(genre_requests) :
          /\ j <= Len(AllBatches(artist_ids))
          /\ genre_requests[j] = ArtistsRequest(AllBatches(artist_ids)[j])
    /\ analysis_pc = "raised" => feature_requests = <<>> /\ genre_requests = <<>>
    /\ AnalysisReturned
          => /\ Len(feature_requests) = Len(AllBatches(track_ids))
             /\ Len(genre_requests) = Len(AllBatches(artist_ids))
             /\ DOMAIN artist_genres = AnsweredIds(genre_requests)
             /\ \A feature \in FeatureNameSet :
                   LET n == Cardinality({ id \in AnsweredIds(feature_requests) :
                                             HasValue(id, feature) })
                   IN  IF n = 0 THEN feature \notin DOMAIN analysis.value.audio_features
                       ELSE /\ feature \in DOMAIN analysis.value.audio_features
                            /\ analysis.value.audio_features[feature].count = n

\* An analysis returned after a batch of each kind failed and a later batch
\* of that kind was answered.
C13_Witness ==
    /\ AnalysisReturned
    /\ \E j \in 1..Len(feature_requests), k \in 1..Len(feature_requests) :
          /\ j < k
          /\ \E f \in 1..Len(failed_requests) : failed_requests[f] = feature_requests[j]
          /\ \A f \in 1..Len(failed_requests) : failed_requests[f] # feature_requests[k]
    /\ \E j \in 1..Len(genre_requests), k \in 1..Len(genre_requests) :
          /\ j < k
          /\ \E f \in 1..Len(failed_requests) : failed_requests[f] = genre_requests[j]
          /\ \A f \in 1..Len(failed_requests) : failed_requests[f] # genre_requests[k]
    /\ analysis.value.top_genres # <<>>
    /\ "energy" \in DOMAIN analysis.value.audio_features

\* The entries at positions below limit, for a limit >= 0.
FirstLimitTracks ==
    SubSeq(tracks, 1, IF analysis_limit < Len(tracks) THEN analysis_limit ELSE Len(tracks))

\* The values of one feature among the features the requests returned.
ReturnedValues(feature) ==
    { k \in 1..Len(audio_features) :
        /\ audio_features[k].t = "dict"
        /\ audio_features[k].features[feature].t = "float" }

\* C18: for limit >= 0 only the first limit tracks are used:
\* total_tracks_analyzed is min(limit, number of tracks); every id of every
\* batch request is an id of one of those tracks; every entry of a frequency
\* table counts the occurrences of its key among those tracks; and each
\* feature's count, average, min and max are those of the values returned
\* for that feature that are not null.
C18_OnlyFirstLimitTracks ==
    (analysis_pc # "idle" /\ analysis_limit >= 0)
        => LET first == FirstLimitTracks
               n == Len(first)
               artists(i) == first[i].track.artists
               value == analysis.value
           IN  /\ \A j \in 1..Len(feature_requests) : \A k \in 1..Len(feature_requests[j].ids) :
                     \E i \in 1..n : first[i].track.id = feature_requests[j].ids[k]
               /\ \A j \in 1..Len(genre_requests) : \A k \in 1..Len(genre_requests[j].ids) :
                     \E i \in 1..n : \E a \in 1..Len(artists(i)) :
                         artists(i)[a].id = genre_requests[j].ids[k]
               /\ Len(audio_features) <= n
               /\ AnalysisReturned
                     => /\ value.total_tracks_analyzed = n
                        /\ value.total_tracks = Len(tracks)
                        /\ \A p \in 1..Len(value.top_artists) :
                              value.top_artists[p][2] =
                                  Cardinality({ ia \in (1..n) \X (1..2) :
                                      /\ ia[2] <= Len(artists(ia[1]))
                                      /\ artists(ia[1])[ia[2]].name = value.top_artists[p][1] })
                        /\ \A p \in 1..Len(value.top_albums) :
                              value.top_albums[p][2] =
                                  Cardinality({ i \in 1..n :
                                      first[i].track.album.name = value.top_albums[p][1] })
                        /\ \A p \in 1..Len(value.top_years) :
                              value.top_years[p][2] =
                                  Cardinality({ i \in 1..n :
                                      Slice(first[i].track.album.release_date, 0, 4)
                                          = value.top_years[p][1] })
                        /\ \A p \in 1..Len(value.top_genres) :
                              value.top_genres[p][2] =
                                  Cardinality({ iag \in (1..n) \X (1..2) \X (1..2) :
                                      /\ iag[2] <= Len(artists(iag[1]))
                                      /\ artists(iag[1])[iag[2]].id \in DOMAIN artist_genres
                                      /\ LET genres == artist_genres[artists(iag[1])[iag[2]].id]
                                         IN  /\ iag[3] <= Len(genres)
                                             /\ genres[iag[3]] = value.top_genres[p][1] })
                        /\ \A feature \in FeatureNameSet :
                              LET at == ReturnedValues(feature)
                                  v(k) == audio_features[k].features[feature]
                                  stats == value.audio_features[feature]
                              IN  IF at = {} THEN feature \notin DOMAIN value.audio_features
                                  ELSE /\ feature \in DOMAIN value.audio_features
                                       /\ stats.count = Cardinality(at)
                                       /\ stats.average.den = 1000 * Cardinality(at)
                                       /\ stats.average.num
                                              = SumNum([k \in 1..Len(audio_features) |->
                                                    IF k \in at THEN v(k) ELSE PyFloat(0, 1000)])
                                       /\ \E k \in at : v(k) = stats.min
                                       /\ \E k \in at : v(k) = stats.max
                                       /\ \A k \in at : stats.min.num <= v(k).num
                                       /\ \A k \in at : v(k).num <= stats.max.num

\* An analysis with a limit below the number of tracks returned, some
\* returned feature values being null, with non-empty tables.
C18_Witness ==
    /\ AnalysisReturned
    /\ analysis_limit > batch_size
    /\ analysis_limit < Len(tracks)
    /\ \E k \in 1..Len(audio_features) : audio_features[k].t = "None"
    /\ ReturnedValues("danceability") # ReturnedValues("energy")
    /\ ReturnedValues("danceability") # {}
    /\ analysis.value.top_genres # <<>>
    /\ analysis.value.top_years # <<>>

\* =================================================== export_songs_to_csv
\* The entries of a list whose popularity is an integer.
HasIntegerPopularity(item) ==
    "popularity" \in DOMAIN item.track /\ item.track.popularity.t = "int"

WithIntegerPopularity(songs) == SelectSeq(songs, HasIntegerPopularity)

\* The lists it is called with: the window's current liked songs, as fetched
\* or as read back from their snapshot, and those of a library whose tracks
\* all have a popularity.
ExportLists ==
    { Library(n) : n \in 0..MaxExportSongs }
        \cup { CachedCopy(Library(n)) : n \in 0..MaxExportSongs }
        \cup { WithIntegerPopularity(Library(n)) : n \in 0..MaxExportSongs }

ExportReturned(value) == [kind |-> "return", value |-> value]

\* export_songs_to_csv(export_songs) with every write succeeding: the
\* file holds the header and the rows, and True is returned.
ExportSucceeds ==
    /\ export_result.kind = "none"
    /\ export_given' = export_songs
    /\ export_file' = [exists |-> TRUE, content |-> ExportRows(export_songs)]
    /\ export_failure' = FALSE
    /\ export_result' = ExportReturned(TRUE)
    /\ UNCHANGED export_songs
    /\ UNCHANGED <<vars, analysisVars, insightsVars, mainVars, windowVars>>

\* export_songs_to_csv(export_songs) when an I/O operation raises: open()
\* raised and the file is as it was, or a write raised after open() had
\* created or truncated the file and some rows had reached it.  False is
\* returned.
ExportFails ==
    /\ export_result.kind = "none"
    /\ export_given' = export_songs
    /\ \/ UNCHANGED export_file
       \/ \E cut \in 0..Len(export_songs) :
             export_file' = [exists |-> TRUE,
                             content |-> SubSeq(ExportRows(export_songs), 1, cut)]
    /\ export_failure' = TRUE
    /\ export_result' = ExportReturned(FALSE)
    /\ UNCHANGED export_songs
    /\ UNCHANGED <<vars, analysisVars, insightsVars, mainVars, windowVars>>

\* The window holds a list of liked songs; the file is absent, or left by
\* an earlier export.
InitExport ==
    /\ LoadIdle
    /\ AnalysisIdle
    /\ InsightsIdle
    /\ MainIdle
    /\ WindowIdle
    /\ export_songs \in ExportLists
    /\ export_given = <<>>
    /\ export_file \in {[exists |-> FALSE], [exists |-> TRUE, content |-> ExportRows(OldSongs)]}
    /\ export_result = [kind |-> "none"]
    /\ export_failure = FALSE

NextExport ==
    \/ ExportSucceeds
    \/ ExportFails

SpecExport == InitExport /\ [][NextExport]_allVars

\* ------------------------------------------------------------------ claims
\* C14: export_songs_to_csv never raises; it returns True when no I/O
\* operation failed and False when one did; after True the file holds the
\* nine-column header and then one row per entry, in input order, whose
\* first column is the entry's position counted from 1; the list it was
\* given is as it was.
C14_ExportWritesHeaderAndRows ==
    /\ export_result.kind # "raise"
    /\ export_result.kind = "return"
          => /\ export_result.value = ~export_failure
             /\ export_songs = export_given
             /\ export_result.value
                   => /\ export_file.exists
                      /\ Len(export_file.content) = Len(export_given) + 1
                      /\ export_file.content[1] =
                            << <<"Song Number">>, <<"Artist">>, <<"Title">>, <<"Duration">>,
                               <<"Popularity">>, <<"Spotify URL">>, <<"Liked Date">>,
                               <<"Album">>, <<"Track ID">> >>
                      /\ \A i \in 1..Len(export_given) :
                            LET row == export_file.content[i + 1]
                            IN  /\ Len(row) = 9
                                /\ row[1] = Str(i)
                                /\ row[3] = export_given[i].track.name
                                /\ row[8] = export_given[i].track.album.name
                                /\ row[9] = export_given[i].track.id

\* An export of several entries that replaced the file of an earlier export.
C14_Witness ==
    /\ export_result = ExportReturned(TRUE)
    /\ Len(export_given) >= 3
    /\ export_file.content # ExportRows(OldSongs)

\* C15: after an export, each row's duration column is the zero-padded
\* minutes (d div 60000) and seconds ((d mod 60000) div 1000) of the entry's
\* duration d, so 245000 gives "04:05", and the popularity column of an
\* entry whose popularity is absent or null is 0.
C15_DurationAndMissingPopularity ==
    export_result = ExportReturned(TRUE)
        => \A i \in 1..Len(export_given) :
              LET row == export_file.content[i + 1]
                  track == export_given[i].track
              IN  /\ row[4] = Pad2(track.duration_ms \div 60000) \o <<":">>
                                  \o Pad2((track.duration_ms % 60000) \div 1000)
                  /\ track.duration_ms = 245000 => row[4] = <<"0", "4", ":", "0", "5">>
                  /\ IF "popularity" \notin DOMAIN track THEN row[5] = <<"0">>
                     ELSE IF track.popularity.t = "None" THEN row[5] = <<"0">>
                     ELSE row[5] = Str(track.popularity.v)

\* ============================================== get_music_taste_insights
\* The averages are exact fractions and the comparisons are exact; each
\* sentence is written without its leading pictograph.
Thousandths(n) == PyFloat(n, 1000)

\* avg > threshold read with >= in place of >.
Above_OrEqual(avg, threshold) == avg.num * threshold.den >= threshold.num * avg.den

\* avg > threshold
Above(avg, threshold) == avg.num * threshold.den > threshold.num * avg.den

\* avg < threshold
Below(avg, threshold) == avg.num * threshold.den < threshold.num * avg.den

InsightAttributes == << "danceability", "energy", "valence", "acousticness", "tempo" >>

\* The two thresholds of the if/elif of an attribute.
UpperThreshold(attribute) == IF attribute = "tempo" THEN PyFloat(140, 1) ELSE PyFloat(7, 10)

LowerThreshold(attribute) == IF attribute = "tempo" THEN PyFloat(100, 1) ELSE PyFloat(3, 10)

\* The sentences of the if, the elif and the else of each attribute.
HighSentence(attribute) ==
    CASE attribute = "danceability" ->
            <<"You love danceable music! Your tracks have high danceability scores.">>
      [] attribute = "energy" -> <<"You're drawn to high-energy, energetic tracks!">>
      [] attribute = "valence" -> <<"You love happy, positive music!">>
      [] attribute = "acousticness" -> <<"You prefer acoustic and unplugged music.">>
      [] attribute = "tempo" -> <<"You love fast-paced, high-tempo music!">>

LowSentence(attribute) ==
    CASE attribute = "danceability" -> <<"You prefer more laid-back, less danceable tracks.">>
      [] attribute = "energy" -> <<"You prefer calm, low-energy music.">>
      [] attribute = "valence" -> <<"You're drawn to more melancholic, emotional tracks.">>
      [] attribute = "acousticness" -> <<"You love electronic and heavily produced music.">>
      [] attribute = "tempo" -> <<"You prefer slower, more relaxed tempos.">>

MiddleSentence(attribute) ==
    CASE attribute = "danceability" -> <<"You have a balanced taste in danceability.">>
      [] attribute = "energy" -> <<"You enjoy a mix of energetic and calm tracks.">>
      [] attribute = "valence" -> <<"You have a balanced emotional range in your music.">>
      [] attribute = "acousticness" -> <<"You enjoy both acoustic and electronic music.">>
      [] attribute = "tempo" -> <<"You enjoy a good mix of tempos.">>

NotAvailableSentence ==
    <<"Audio features analysis not available - showing basic insights only.">>

\* What the block of one attribute appends to insights.
AttributeInsights(features, attribute) ==
    IF attribute \notin DOMAIN features THEN <<>>
    ELSE LET avg == features[attribute].average
         IN  IF Above(avg, UpperThreshold(attribute)) THEN <<HighSentence(attribute)>>
             ELSE IF Below(avg, LowerThreshold(attribute)) THEN <<LowSentence(attribute)>>
             ELSE <<MiddleSentence(attribute)>>

\* The audio-features part: the five blocks in order, or the one sentence
\* of the else when the dict of features is empty.
FeatureInsights(features) ==
    IF DOMAIN features # {}
    THEN Flatten([j \in 1..Len(InsightAttributes) |->
                    AttributeInsights(features, InsightAttributes[j])])
    ELSE <<NotAvailableSentence>>

GenreInsights(top_genres) ==
    IF top_genres # <<>>
    THEN << <<"Your most common genre is: ", top_genres[1][1]>> >>
    ELSE <<>>

ArtistInsights(top_artists) ==
    IF top_artists # <<>>
    THEN << <<"Your most listened artist is: ">> \o top_artists[1][1] >>
    ELSE <<>>

EraInsights(top_years) ==
    IF top_years = <<>> THEN <<>>
    ELSE LET recent_year == top_years[1][1]
             oldest_year == top_years[Len(top_years)][1]
         IN  IF IntOf(recent_year) - IntOf(oldest_year) > 20
             THEN << <<"You have a diverse taste spanning multiple decades!">> >>
             ELSE IF IntOf(recent_year) >= 2020
             THEN << <<"You mostly listen to recent music.">> >>
             ELSE << <<"You appreciate music from different eras.">> >>

\* get_music_taste_insights(a): the list it returns.
get_music_taste_insights(a) ==
    IF a.t = "None" THEN <<>>
    ELSE FeatureInsights(a.audio_features) \o GenreInsights(a.top_genres)
            \o ArtistInsights(a.top_artists) \o EraInsights(a.top_years)

\* The averages an analysis can hold: on each side of each threshold and on
\* the thresholds themselves.
UnitAverages == { Thousandths(299), Thousandths(300), Thousandths(700), Thousandths(701) }

TempoAverages ==
    { Thousandths(99999), Thousandths(100000), Thousandths(120500), Thousandths(140000),
      Thousandths(140001) }

FeatureStats(avg) == [average |-> avg, min |-> avg, max |-> avg, count |-> 1]

\* Every dict of features over the five attributes, each absent or present.
FeatureDicts ==
    LET Choices(attribute) ==
            {PyNone} \cup (IF attribute = "tempo" THEN TempoAverages ELSE UnitAverages)
        Picks == { pick \in [ {InsightAttributes[j] : j \in 1..Len(InsightAttributes)}
                                -> {PyNone} \cup TempoAverages \cup UnitAverages ] :
                      \A attribute \in DOMAIN pick : pick[attribute] \in Choices(attribute) }
    IN  { [ attribute \in { x \in DOMAIN pick : pick[x] # PyNone } |->
              FeatureStats(pick[attribute]) ] : pick \in Picks }

YearTables ==
    { <<>>,
      << << <<"2", "0", "2", "1">>, 1 >> >>,
      << << <<"2", "0", "2", "1">>, 2 >>, << <<"1", "9", "9", "9">>, 1 >> >>,
      << << <<"2", "0", "1", "9">>, 1 >>, << <<"2", "0", "0", "5">>, 3 >> >> }

NameTables ==
    { [genres |-> <<>>, artists |-> <<>>],
      [genres |-> << <<"pop", 5>>, <<"rock", 5>> >>,
       artists |-> << <<ArtistNames[1], 4>>, <<ArtistNames[2], 1>> >>] }

\* What get_music_taste_insights is called with: None, or a dict as
\* analyze_music_taste returns it.
InsightsInputs ==
    {PyNone} \cup
        { [ t |-> "dict", audio_features |-> features,
            top_genres |-> names.genres, top_artists |-> names.artists,
            top_albums |-> <<>>, top_years |-> years,
            total_tracks_analyzed |-> 5, total_tracks |-> 5 ] :
            features \in FeatureDicts, names \in NameTables, years \in YearTables }

InsightsReturned(value) == [kind |-> "return", value |-> value]

\* The call insights = get_music_taste_insights(analysis).
GetInsights ==
    /\ insights.kind = "none"
    /\ insights' = InsightsReturned(get_music_taste_insights(insights_analysis))
    /\ UNCHANGED insights_analysis
    /\ UNCHANGED <<vars, analysisVars, exportVars, mainVars, windowVars>>

InitInsights ==
    /\ LoadIdle
    /\ AnalysisIdle
    /\ ExportIdle
    /\ MainIdle
    /\ WindowIdle
    /\ insights_analysis \in InsightsInputs
    /\ insights = [kind |-> "none"]

NextInsights == GetInsights

SpecInsights == InitInsights /\ [][NextInsights]_allVars

\* ------------------------------------------------------------------ claims
\* How many entries of the returned list are the sentence.
TimesEmitted(sentence) ==
    Cardinality({ k \in 1..Len(insights.value) : insights.value[k] = sentence })

\* C19: for each of danceability, energy, valence, acousticness and tempo
\* that the analysis has an average for, the returned list holds exactly one
\* of the attribute's three sentences: the high one when the average is
\* strictly above the upper threshold (7/10, or 140 for tempo), the low one
\* when it is strictly below the lower threshold (3/10, or 100 for tempo),
\* the third otherwise, so also for an average equal to a threshold.
C19_OneSentencePerAttribute ==
    (insights.kind = "return" /\ insights_analysis.t = "dict")
        => \A j \in 1..Len(InsightAttributes) :
              LET attribute == InsightAttributes[j]
                  tempo == attribute = "tempo"
                  high == TimesEmitted(HighSentence(attribute))
                  low == TimesEmitted(LowSentence(attribute))
                  middle == TimesEmitted(MiddleSentence(attribute))
              IN  attribute \in DOMAIN insights_analysis.audio_features
                     => LET avg == insights_analysis.audio_features[attribute].average
                            over == IF tempo THEN avg.num > 140 * avg.den
                                    ELSE 10 * avg.num > 7 * avg.den
                            under == IF tempo THEN avg.num < 100 * avg.den
                                     ELSE 10 * avg.num < 3 * avg.den
                        IN  /\ high + low + middle = 1
                            /\ over => high = 1
                            /\ under => low = 1
                            /\ (~over /\ ~under) => middle = 1

\* Insights returned for averages that sit on a threshold: danceability
\* 7/10, energy 3/10 and tempo 140.
C19_Witness ==
    /\ insights.kind = "return"
    /\ insights_analysis.t = "dict"
    /\ {"danceability", "energy", "tempo"} \subseteq DOMAIN insights_analysis.audio_features
    /\ insights_analysis.audio_features["danceability"].average = Thousandths(700)
    /\ insights_analysis.audio_features["energy"].average = Thousandths(300)
    /\ insights_analysis.audio_features["tempo"].average = Thousandths(140000)
    /\ TimesEmitted(MiddleSentence("danceability")) = 1
    /\ TimesEmitted(MiddleSentence("tempo")) = 1

\* ============================================ authenticate_with_spotify, main
ShowError(title) == [box |-> "showerror", title |-> title]

ShowInfo(title) == [box |-> "showinfo", title |-> title]

\* A token_info the helper answers with.
TokenInfo(access_token) == [t |-> "dict", access_token |-> access_token]

\* spotipy.Spotify(auth=token_info['access_token'])
SpotifyClient(token_info) == [t |-> "Spotify", auth |-> token_info.access_token]

\* What the auth helper and the API do in one login: each call raises or
\* answers, a token request answers with a token or with nothing.
HelperBehaviours ==
    [ SpotifyOAuth : {"ok", "raise"},
      get_cached_token : {"token", "none", "raise"},
      get_authorize_url : {"ok", "raise"},
      get_access_token : {"token", "none", "raise"},
      current_user : {"ok", "raise"} ]

AuthReturned(value) == [kind |-> "return", value |-> value]

\* How a run of authenticate_with_spotify ended, what it showed and what it
\* called.
AuthEnd(outcome, shown, calls) == [outcome |-> outcome, dialogs |-> shown, helper_calls |-> calls]

\* The except block: the error dialog, print(e), and then print(e.traceback),
\* which raises AttributeError since exceptions have no such attribute; the
\* return None under it is not reached.
AuthExcept(shown, calls) ==
    AuthEnd([kind |-> "raise", exception |-> "AttributeError"],
            Append(shown, ShowError("Error")), calls)

\* From "if token_info:" on.
AuthWithToken(token_info, b, shown, calls) ==
    IF token_info = PyNone
    THEN AuthEnd(AuthReturned(PyNone), Append(shown, ShowError("Authentication Failed")), calls)
    ELSE IF b.current_user = "raise"
    THEN AuthExcept(shown, calls \o <<"Spotify", "current_user">>)
    ELSE AuthEnd(AuthReturned(SpotifyClient(token_info)), Append(shown, ShowInfo("Success")),
                 calls \o <<"Spotify", "current_user">>)

\* authenticate_with_spotify() with the configuration e and the helper
\* behaving as b.
authenticate_with_spotify(e, b) ==
    IF ~e.SPOTIPY_CLIENT_ID \/ ~e.SPOTIPY_CLIENT_SECRET
    THEN AuthEnd(AuthReturned(PyNone), <<ShowError("Configuration Error")>>, <<>>)
    ELSE IF b.SpotifyOAuth = "raise"
    THEN AuthExcept(<<>>, <<"SpotifyOAuth">>)
    ELSE IF b.get_cached_token = "raise"
    THEN AuthExcept(<<>>, <<"SpotifyOAuth", "get_cached_token">>)
    ELSE IF b.get_cached_token = "token"
    THEN AuthWithToken(TokenInfo("cached token"), b, <<>>, <<"SpotifyOAuth", "get_cached_token">>)
    ELSE IF b.get_authorize_url = "raise"
    THEN AuthExcept(<<>>, <<"SpotifyOAuth", "get_cached_token", "get_authorize_url">>)
    ELSE LET calls == <<"SpotifyOAuth", "get_cached_token", "get_authorize_url",
                        "webbrowser.open", "get_access_token">>
             shown == <<ShowInfo("Authentication")>>
         IN  IF b.get_access_token = "raise" THEN AuthExcept(shown, calls)
             ELSE AuthWithToken(IF b.get_access_token = "token" THEN TokenInfo("new token")
                                ELSE PyNone,
                                b, shown, calls)

FeatureButtons ==
    { "test_button", "liked_songs_button", "search_button", "playback_button",
      "playlist_button", "analysis_button" }

\* The Login button: spotify_client is assigned what the call returned, and
\* a client enables the six buttons; an exception leaves the handler before
\* the assignment.
on_auth_click(b) ==
    /\ nclicks < MaxClicks
    /\ nclicks' = nclicks + 1
    /\ LET end == authenticate_with_spotify(env, b)
       IN  /\ dialogs' = end.dialogs
           /\ helper_calls' = end.helper_calls
           /\ click_outcome' = end.outcome
           /\ IF end.outcome.kind = "return"
              THEN /\ spotify_client' = end.outcome.value
                   /\ IF end.outcome.value # PyNone
                      THEN buttons' = [button \in FeatureButtons |-> "normal"]
                      ELSE UNCHANGED buttons
              ELSE UNCHANGED <<spotify_client, buttons>>
    /\ UNCHANGED <<env, windows>>
    /\ UNCHANGED <<vars, analysisVars, exportVars, insightsVars, windowVars>>

\* A click on an enabled feature button: its window opens when a client is
\* held, an error dialog otherwise.
FeatureClick(button, window) ==
    /\ nclicks < MaxClicks
    /\ buttons[button] = "normal"
    /\ nclicks' = nclicks + 1
    /\ IF spotify_client # PyNone
       THEN /\ windows' = Append(windows, window)
            /\ dialogs' = <<>>
       ELSE /\ dialogs' = <<ShowError("Error")>>
            /\ UNCHANGED windows
    /\ helper_calls' = <<>>
    /\ click_outcome' = NoResult
    /\ UNCHANGED <<env, spotify_client, buttons>>
    /\ UNCHANGED <<vars, analysisVars, exportVars, insightsVars, windowVars>>

on_liked_songs_click == FeatureClick("liked_songs_button", "show_liked_songs")

on_search_click == FeatureClick("search_button", "show_search_window")

on_playback_click == FeatureClick("playback_button", "show_playback_controls")

on_playlist_click == FeatureClick("playlist_button", "show_playlist_manager")

on_analysis_click == FeatureClick("analysis_button", "show_music_analysis")

\* main() up to root.mainloop(): each configuration value is set or missing,
\* no client is held and the feature buttons are disabled.
InitMain ==
    /\ LoadIdle
    /\ AnalysisIdle
    /\ ExportIdle
    /\ InsightsIdle
    /\ WindowIdle
    /\ env \in [ {"SPOTIPY_CLIENT_ID", "SPOTIPY_CLIENT_SECRET", "SPOTIPY_REDIRECT_URI"}
                   -> BOOLEAN ]
    /\ spotify_client = PyNone
    /\ buttons = [button \in FeatureButtons |-> "disabled"]
    /\ dialogs = <<>>
    /\ helper_calls = <<>>
    /\ click_outcome = NoResult
    /\ nclicks = 0
    /\ windows = <<>>

NextMain ==
    \/ \E b \in HelperBehaviours : on_auth_click(b)
    \/ on_liked_songs_click
    \/ on_search_click
    \/ on_playback_click
    \/ on_playlist_click
    \/ on_analysis_click

SpecMain == InitMain /\ [][NextMain]_allVars

\* ------------------------------------------------------------------ claims
\* A login click has just run authenticate_with_spotify.
LoginDone == click_outcome.kind # "none"

\* C16: when the client id, the client secret or the redirect URI is
\* missing, a login shows the configuration error dialog and nothing else,
\* returns None, and makes no call on the auth helper.
C16_MissingConfigurationIsReported ==
    (LoginDone /\ \E name \in DOMAIN env : ~env[name])
        => /\ dialogs = <<ShowError("Configuration Error")>>
           /\ click_outcome = AuthReturned(PyNone)
           /\ helper_calls = <<>>

\* C17: whatever the helper and the profile request do, a login ends by
\* returning: a client, or None after exactly one error dialog; no exception
\* reaches on_auth_click.
C17_ReturnsClientOrSurfacesOnce ==
    LoginDone
        => /\ click_outcome.kind = "return"
           /\ \/ click_outcome.value # PyNone
              \/ Cardinality({ k \in 1..Len(dialogs) : dialogs[k].box = "showerror" }) = 1

\* C20: whenever the liked-songs, playlist or analysis button is enabled,
\* the spotify_client main holds is not None.
C20_EnabledOnlyWithClient ==
    \A button \in {"liked_songs_button", "playlist_button", "analysis_button"} :
        (button \in DOMAIN buttons /\ buttons[button] = "normal") => spotify_client # PyNone

\* ================================================= a load after a refresh
\* The step is the call of load_liked_songs_data(force_refresh=False) that
\* follows a forced refresh which returned after a successful snapshot write.
LoadFollowsRefresh ==
    /\ pc = "done"
    /\ force_refresh
    /\ result = Returned(SavedToCache(cache_filename), username)
    /\ pc' = "lookup"

\* C23: the load that follows a forced refresh whose fetch and snapshot write
\* succeeded finds the snapshot just written as the user's latest one and
\* returns its entries: as many as the refresh returned, with the same
\* track ids in the same order.
C23_LoadAfterRefreshReadsNewSnapshot ==
    [][ LoadFollowsRefresh
          => /\ get_latest_cache_file(files', username') = {cache_filename}
             /\ \A cached_data \in load_liked_songs_from_cache(files', username') :
                   /\ cached_data.hit
                   /\ Len(cached_data.liked_songs) = Len(liked_songs)
                   /\ \A i \in 1..Len(liked_songs) :
                         cached_data.liked_songs[i].track.id = liked_songs[i].track.id ]_vars

\* ======================================================= a second round trip
\* C24: for a list whose entries all have an integer popularity, the rows
\* written from the list read back from the written file are the rows of
\* that file: writing, reading and writing again repeats the first file.
C24_SecondWriteRepeatsFirst ==
    ( /\ export_result = ExportReturned(TRUE)
      /\ \A i \in 1..Len(export_given) : HasIntegerPopularity(export_given[i]) )
        => LET first == export_file.content
               fieldnames == first[1]
               rows == DataRows(first)
               back == [r \in 1..Len(rows) |-> TrackData(fieldnames, rows[r])]
           IN  /\ \A r \in 1..Len(rows) : ~RowRaises(fieldnames, rows[r])
               /\ SnapshotRows(back) = first

\* ============================================== an unparseable newest snapshot
\* When the call was made, the reader could parse none of the files
\* get_latest_cache_file can return.
NewestUnparseableAtCall ==
    /\ get_latest_cache_file(files_before, username) # {}
    /\ \A f \in get_latest_cache_file(files_before, username) :
          ~ReadSnapshot(files_before, f).hit

\* The user's .csv snapshots that were older than the newest file and
\* parseable when the call was made.
OlderParseableAtCall ==
    { g \in Glob(DOMAIN files_before, username, <<".csv">>) :
        /\ ReadSnapshot(files_before, g).hit
        /\ \A f \in get_latest_cache_file(files_before, username) :
              files_before[g].mtime < files_before[f].mtime }

\* C25: a call with force_refresh=False made when the user's most recently
\* modified snapshot does not parse, while an older .csv snapshot does,
\* opens the newest file alone and goes on to the full paginated fetch: when
\* it returns it has issued every page request and returns the fetched
\* entries, never those of the older snapshot.
C25_NoFallbackToOlderSnapshot ==
    (ProfileAnswered /\ ~force_refresh /\ NewestUnparseableAtCall /\ OlderParseableAtCall # {})
        => /\ \A k \in 1..Len(cache_read) : cache_read[k] \notin OlderParseableAtCall
           /\ pc # "lookup"
                => /\ Len(cache_read) = 1
                   /\ cache_read[1] \in get_latest_cache_file(files_before, username)
                   /\ Len(PagedRequests) >= 1 \/ pc = "fetch"
           /\ pc = "done"
                => /\ result.kind = "return"
                   /\ PagedRequests = FullFetchRequests(Len(library))
                   /\ liked_songs = library
                   /\ result.cache_info # LoadedFromCache(CachedAt(cache_read[1]))

\* Such a call has returned a fetched library of several entries; the
\* newest file was a legacy .txt snapshot, and the older snapshot held
\* other entries.
C25_Witness ==
    /\ ProfileAnswered /\ ~force_refresh /\ NewestUnparseableAtCall
    /\ pc = "done"
    /\ EndsWith(cache_read[1], <<".txt">>)
    /\ Len(liked_songs) = 23
    /\ \E g \in OlderParseableAtCall :
          ReadSnapshot(files_before, g).liked_songs # liked_songs

\* ======================================================== show_liked_songs
\* A message box of the liked-songs window.
MessageBox(box, title, message) == [box |-> box, title |-> title, message |-> message]

LoadFailedBox == MessageBox("showerror", <<"Error">>, <<"Failed to load liked songs: ">>)

ExportFailedBox == MessageBox("showerror", <<"Error">>, <<"Failed to export songs to CSV">>)

ExportedBox(n) ==
    MessageBox("showinfo", <<"Success">>,
               <<"Successfully exported ">> \o Str(n) \o <<" songs to 'liked-songs-latest.csv'">>)

NothingToExportBox ==
    MessageBox("showwarning", <<"Warning">>,
               <<"No songs to export. Please load your liked songs first.">>)

\* f"Total Liked Songs: {len(liked_songs)}{cache_info}"
SummaryText(songs, cache_info) == <<"Total Liked Songs: ">> \o Str(Len(songs)) \o cache_info

\* The library sizes the window is opened on: empty, and a few tracks.
WindowLibrarySizes == {0, 3}

\* show_liked_songs has built the window and its two buttons and is about to
\* make the first load; the directory holds at most one snapshot, and an
\* earlier export may have left its file.
InitWindow ==
    /\ user \in Users
    /\ \E n \in WindowLibrarySizes : library = Library(n)
    /\ \E pool \in StartPools(user) :
          /\ Cardinality(pool) <= 1
          /\ files = FileSystem(pool)
    /\ ncalls = 0
    /\ now = 0
    /\ mclock = 10
    /\ pc = "idle"
    /\ force_refresh = FALSE
    /\ username = <<>>
    /\ liked_songs = <<>>
    /\ offset = 0
    /\ requests = <<>>
    /\ cache_read = <<>>
    /\ cache_filename = <<>>
    /\ failures = <<>>
    /\ result = NoResult
    /\ files_before = files
    /\ writes = <<>>
    /\ AnalysisIdle
    /\ InsightsIdle
    /\ MainIdle
    /\ export_songs = <<>>
    /\ export_given = <<>>
    /\ export_file \in {[exists |-> FALSE], [exists |-> TRUE, content |-> ExportRows(OldSongs)]}
    /\ export_result = NoResult
    /\ export_failure = FALSE
    /\ window_pc = "opening"
    /\ window_force_refresh = FALSE
    /\ current_liked_songs = <<>>
    /\ refresh_button = "normal"
    /\ export_button = "normal"
    /\ summary_label = <<>>
    /\ window_dialogs = <<>>
    /\ last_success = NoResult

\* load_and_display_data(force_refresh=force) up to liked_window.update():
\* the first load, made by show_liked_songs itself, or a click on the
\* Refresh button.  Both buttons are disabled before anything else.
load_and_display_data(force) ==
    /\ \/ window_pc = "opening" /\ ~force
       \/ window_pc = "ready" /\ force /\ refresh_button = "normal"
    /\ ncalls < MaxCalls
    /\ window_force_refresh' = force
    /\ refresh_button' = "disabled"
    /\ export_button' = "disabled"
    /\ window_dialogs' = <<>>
    /\ window_pc' = "loading"
    /\ UNCHANGED <<current_liked_songs, summary_label, last_success>>
    /\ UNCHANGED <<vars, analysisVars, exportVars, insightsVars, mainVars>>

\* liked_songs, cache_info, username = load_liked_songs_data(spotify_client,
\* force_refresh): the call is made, and current_user() answers or raises.
WindowCall ==
    /\ window_pc = "loading"
    /\ pc = "idle"
    /\ Call(window_force_refresh)

WindowCallFails ==
    /\ window_pc = "loading"
    /\ pc = "idle"
    /\ CallProfileFails(window_force_refresh)

\* What the end of load_and_display_data leaves alone.
LoadEndsFrame ==
    /\ window_pc' = "ready"
    /\ pc' = "idle"
    /\ UNCHANGED window_force_refresh
    /\ UNCHANGED <<user, library, files, now, mclock, force_refresh, username, liked_songs,
                   offset, requests, cache_read, cache_filename, failures, result,
                   files_before, ncalls, writes>>
    /\ UNCHANGED <<analysisVars, exportVars, insightsVars, mainVars>>

\* LoadEnds as it would be if the buttons were enabled at the end of the try
\* body and not in a finally clause.
LoadEnds_NoFinally ==
    /\ window_pc = "loading"
    /\ pc \in {"done", "raised"}
    /\ IF result.kind = "return"
       THEN /\ current_liked_songs' = liked_songs
            /\ summary_label' = SummaryText(liked_songs, result.cache_info)
            /\ last_success' = [kind |-> "loaded", liked_songs |-> liked_songs]
            /\ window_dialogs' = <<>>
            /\ refresh_button' = "normal"
            /\ export_button' = "normal"
       ELSE /\ window_dialogs' = <<LoadFailedBox>>
            /\ UNCHANGED <<current_liked_songs, summary_label, last_success,
                           refresh_button, export_button>>
    /\ LoadEndsFrame

\* LoadEnds as it would be if the load filled the window's list in place, so
\* that a failing load left there what it had fetched.
LoadEnds_SharesList ==
    /\ window_pc = "loading"
    /\ pc \in {"done", "raised"}
    /\ current_liked_songs' = liked_songs
    /\ IF result.kind = "return"
       THEN /\ summary_label' = SummaryText(liked_songs, result.cache_info)
            /\ last_success' = [kind |-> "loaded", liked_songs |-> liked_songs]
            /\ window_dialogs' = <<>>
       ELSE /\ window_dialogs' = <<LoadFailedBox>>
            /\ UNCHANGED <<summary_label, last_success>>
    /\ refresh_button' = "normal"
    /\ export_button' = "normal"
    /\ LoadEndsFrame

\* load_liked_songs_data has returned or raised.  On a return the list is
\* stored in current_liked_songs, shown, and counted in the summary; on an
\* exception the error box is shown; finally both buttons are enabled.
LoadEnds ==
    /\ window_pc = "loading"
    /\ pc \in {"done", "raised"}
    /\ IF result.kind = "return"
       THEN /\ current_liked_songs' = liked_songs
            /\ summary_label' = SummaryText(liked_songs, result.cache_info)
            /\ last_success' = [kind |-> "loaded", liked_songs |-> liked_songs]
            /\ window_dialogs' = <<>>
       ELSE /\ window_dialogs' = <<LoadFailedBox>>
            /\ UNCHANGED <<current_liked_songs, summary_label, last_success>>
    /\ refresh_button' = "normal"
    /\ export_button' = "normal"
    /\ LoadEndsFrame

\* A click on the Export button: a non-empty current list is handed to
\* export_songs_to_csv, an empty one is answered with the warning.
export_to_csv ==
    /\ window_pc = "ready"
    /\ export_button = "normal"
    /\ IF current_liked_songs # <<>>
       THEN /\ export_songs' = current_liked_songs
            /\ export_result' = NoResult
            /\ export_failure' = FALSE
            /\ window_pc' = "exporting"
            /\ window_dialogs' = <<>>
            /\ UNCHANGED <<export_given, export_file>>
       ELSE /\ window_dialogs' = <<NothingToExportBox>>
            /\ UNCHANGED <<window_pc, exportVars>>
    /\ UNCHANGED <<window_force_refresh, current_liked_songs, refresh_button, export_button,
                   summary_label, last_success>>
    /\ UNCHANGED <<vars, analysisVars, insightsVars, mainVars>>

\* export_songs_to_csv(current_liked_songs) runs and returns True or False.
WindowExportSucceeds == window_pc = "exporting" /\ ExportSucceeds

WindowExportFails == window_pc = "exporting" /\ ExportFails

\* The box export_to_csv shows for what export_songs_to_csv returned.
ExportEnds ==
    /\ window_pc = "exporting"
    /\ export_result.kind = "return"
    /\ window_dialogs' = IF export_result.value
                         THEN <<ExportedBox(Len(current_liked_songs))>>
                         ELSE <<ExportFailedBox>>
    /\ window_pc' = "ready"
    /\ UNCHANGED <<window_force_refresh, current_liked_songs, refresh_button, export_button,
                   summary_label, last_success>>
    /\ UNCHANGED <<vars, analysisVars, exportVars, insightsVars, mainVars>>

\* A step of the load the window is waiting for.
LoadStep ==
    \/ WindowCall
    \/ WindowCallFails
    \/ CacheLookup
    \/ FetchPage
    \/ FetchPageFails
    \/ SaveSucceeds
    \/ SaveFails
    \/ LoadEnds

NextWindow ==
    \/ \E force \in BOOLEAN : load_and_display_data(force)
    \/ WindowCall
    \/ WindowCallFails
    \/ CacheLookup
    \/ FetchPage
    \/ FetchPageFails
    \/ Tick
    \/ SaveSucceeds
    \/ SaveFails
    \/ LoadEnds
    \/ export_to_csv
    \/ WindowExportSucceeds
    \/ WindowExportFails
    \/ ExportEnds

SpecWindow == InitWindow /\ [][NextWindow]_allVars

\* The handlers are straight-line code run by the event loop: once a load
\* has begun, each of its requests answers or raises and the handler goes
\* on to its end.
SpecWindowFair == SpecWindow /\ WF_allVars(LoadStep)

\* ------------------------------------------------- the buttons during a load
BothDisabled == refresh_button = "disabled" /\ export_button = "disabled"

BothEnabled == refresh_button = "normal" /\ export_button = "normal"

\* C21: from the first statement of load_and_display_data to its end the
\* Refresh and the Export button are both disabled; once it has ended, by a
\* cache hit, a fresh fetch or an exception, both are enabled; and a button
\* that is disabled is enabled again later, whatever loads came before.
C21_ButtonsDisabledWhileLoading ==
    /\ [](window_pc = "loading" => BothDisabled)
    /\ [](window_pc \in {"ready", "exporting"} => BothEnabled)
    /\ (refresh_button = "disabled" \/ export_button = "disabled") ~> BothEnabled

\* A refresh that followed an earlier load has ended with an exception, and
\* the buttons are enabled.
C21_Witness ==
    /\ window_pc = "ready"
    /\ window_force_refresh
    /\ result = Raised
    /\ window_dialogs = <<LoadFailedBox>>
    /\ BothEnabled
    /\ ncalls = MaxCalls

\* ------------------------------------------- the list the window exports
\* The entries the last successful load returned; none before the first.
LastLoaded == IF last_success.kind = "none" THEN <<>> ELSE last_success.liked_songs

\* export_songs_to_csv, called by the last click on Export, has returned True.
ExportedNow ==
    \/ window_pc = "exporting" /\ export_result = ExportReturned(TRUE)
    \/ window_pc = "ready" /\ window_dialogs = <<ExportedBox(Len(current_liked_songs))>>

\* The window's list is what the last successful load returned, whatever
\* loads and exports have failed since, and an export that succeeds is
\* given that list and writes its rows.
ListIsLastLoaded ==
    /\ current_liked_songs = LastLoaded
    /\ window_pc = "exporting" => export_songs = LastLoaded
    /\ ExportedNow => /\ export_given = LastLoaded
                      /\ export_file = [exists |-> TRUE, content |-> ExportRows(LastLoaded)]

\* A load that ends with an exception, and every step of an export, leave
\* the window's list as it is.
FailuresKeepList ==
    /\ (window_pc = "loading" /\ window_pc' = "ready" /\ result.kind = "raise")
          => current_liked_songs' = current_liked_songs
    /\ window_pc = "exporting" => current_liked_songs' = current_liked_songs

\* C22 as stated: a failing load or export leaves the window's list
\* unchanged, Export writes the entries of the last successful load, and
\* the "No songs to export" warning is shown only when no load has
\* succeeded.
C22_WarningOnlyBeforeFirstLoad ==
    /\ [](window_pc # "closed" => ListIsLastLoaded)
    /\ [][FailuresKeepList]_allVars
    /\ [](window_dialogs = <<NothingToExportBox>> => last_success.kind = "none")

\* C22, amended: a failing load or export leaves the window's list
\* unchanged; Export hands export_songs_to_csv the entries of the last
\* successful load when there are any, and a successful export writes
\* exactly their rows; when no load has succeeded, or the last successful
\* load returned no entries, a click on Export shows the "No songs to
\* export" warning and writes no file.
C22_ExportsLastLoadedOrWarns ==
    /\ [](window_pc # "closed" => ListIsLastLoaded)
    /\ [][FailuresKeepList]_allVars
    /\ [](window_dialogs = <<NothingToExportBox>> => LastLoaded = <<>>)
    /\ [](window_pc = "exporting" => LastLoaded # <<>>)
    /\ [][(window_pc = "ready" /\ window_pc' = "ready" /\ LastLoaded = <<>>)
             => /\ window_dialogs' = <<NothingToExportBox>>
                /\ UNCHANGED exportVars]_allVars

\* A first load was served from a snapshot, the refresh after it failed
\* after fetching other entries, and the export after that has succeeded.
C22_Witness ==
    /\ window_pc = "ready"
    /\ result = Raised
    /\ Len(liked_songs) > 0
    /\ liked_songs # current_liked_songs
    /\ current_liked_songs # <<>>
    /\ window_dialogs = <<ExportedBox(Len(current_liked_songs))>>
    /\ export_file = [exists |-> TRUE, content |-> ExportRows(current_liked_songs)]

====
